---- MODULE Spec2Model ----
(***************************************************************************)
(* Codenames room / game state machine (johnsanthosh/codenames).           *)
(*                                                                         *)
(* The shared store holds one room document (status, teams, players,       *)
(* game).  Every client keeps its own copy of the room (React state `room` *)
(* set by the onValue subscription) and every handler computes a map of    *)
(* path -> value from that copy and hands it to update(), which overwrites *)
(* exactly the named paths of the stored document.                         *)
(***************************************************************************)
EXTENDS Integers, Sequences, FiniteSets, TLC

VARIABLES status, teams, players, game, clientRoom, lags, ui

\* The stored document.
store == <<status, teams, players, game>>

vars == <<status, teams, players, game, clientRoom, lags, ui>>

(***************************************************************************)
(* Bounds of the model.                                                    *)
(***************************************************************************)
StartingCards == 2      \* cards of the starting team's colour (9 in the code)
OtherCards    == 1      \* cards of the other team's colour    (8 in the code)
NeutralCards  == 1      \* neutral cards                       (7 in the code)
MaxNumber     == 2      \* largest clue number a spymaster enters
MaxLog        == 4      \* longest game log explored in one round
MaxLags       == 1      \* times a subscription falls behind the store
MaxMissed     == 1      \* writes a lagging client has not been notified of

\* JavaScript null / an absent node: NULL where a string or id is expected,
\* NIL where an object is expected.
NULL == "null"
NIL  == [nil |-> TRUE]
\* A client whose subscription has delivered the latest stored document.
LIVE == [live |-> TRUE]

Team == {"red", "blue"}

\* The users signed in to the room: two spymasters, three operatives and
\* one player who joined the room but never picked a team.
RedSpy  == "rs"
BlueSpy == "bs"
Users == {RedSpy, "r1", "r2", BlueSpy, "b1", "x"}

OtherTeam(t) == IF t = "red" THEN "blue" ELSE "red"

(***************************************************************************)
(* Small sequence helpers (JavaScript array operations used by the code).  *)
(***************************************************************************)
Range(s) == {s[i] : i \in 1..Len(s)}

Includes(s, x) == x \in Range(s)

\* Array.prototype.filter((id) => id !== x)
RECURSIVE FilterOut(_, _)
FilterOut(s, x) ==
    IF s = <<>> THEN <<>>
    ELSE IF Head(s) = x THEN FilterOut(Tail(s), x)
         ELSE <<Head(s)>> \o FilterOut(Tail(s), x)

\* Array(n).fill(v)
Fill(n, v) == [i \in 1..n |-> v]

(***************************************************************************)
(* Board generation.                                                       *)
(***************************************************************************)
BoardSize == StartingCards + OtherCards + NeutralCards + 1

\* The vocabulary: distinct words, at least BoardSize of them.
WORD_LIST == [i \in 1..(BoardSize + 1) |-> i]

\* One run of the Fisher-Yates loop: rnd[i] is the index drawn for
\* position i (1 <= rnd[i] <= i), positions visited from the last down
\* to the second.
RECURSIVE ShuffleFrom(_, _, _)
ShuffleFrom(arr, rnd, i) ==
    IF i <= 1 THEN arr
    ELSE ShuffleFrom([arr EXCEPT ![i] = arr[rnd[i]], ![rnd[i]] = arr[i]],
                     rnd, i - 1)

shuffleArray(arr, rnd) == ShuffleFrom(arr, rnd, Len(arr))

\* The outcomes of Math.random() explored for an array of n elements:
\* "always keep the element" and "always swap with the first".
KeepDraws(n) == [i \in 1..n |-> i]
SwapDraws(n) == [i \in 1..n |-> 1]
WordDraws == {SwapDraws(Len(WORD_LIST))}
TypeDraws == {SwapDraws(BoardSize)}

\* Every card draws its type from the distribution on its own.
generateBoardDrawnTypes(startingTeam, rndWords, rndTypes) ==
    LET words == SubSeq(shuffleArray(WORD_LIST, rndWords), 1, BoardSize)
        types == Fill(IF startingTeam = "red" THEN StartingCards ELSE OtherCards, "red")
                 \o Fill(IF startingTeam = "blue" THEN StartingCards ELSE OtherCards, "blue")
                 \o Fill(NeutralCards, "neutral")
                 \o <<"assassin">>
    IN  [index \in 1..Len(words) |->
            [id |-> index - 1, word |-> words[index], type |-> types[rndTypes[index]],
             revealed |-> FALSE, revealedBy |-> NULL]]

generateBoard(startingTeam, rndWords, rndTypes) ==
    LET words == SubSeq(shuffleArray(WORD_LIST, rndWords), 1, BoardSize)
        types == Fill(IF startingTeam = "red" THEN StartingCards ELSE OtherCards, "red")
                 \o Fill(IF startingTeam = "blue" THEN StartingCards ELSE OtherCards, "blue")
                 \o Fill(NeutralCards, "neutral")
                 \o <<"assassin">>
        shuffledTypes == shuffleArray(types, rndTypes)
    IN  [index \in 1..Len(words) |->
            [id |-> index - 1, word |-> words[index], type |-> shuffledTypes[index],
             revealed |-> FALSE, revealedBy |-> NULL]]

\* Both teams get the total of the starting team.
NewGameStateEqualTotals(startingTeam, board) ==
    [board |-> board,
     currentTurn |-> startingTeam,
     startingTeam |-> startingTeam,
     phase |-> "clue",
     currentClue |-> NIL,
     scores |-> [red  |-> [found |-> 0, total |-> StartingCards],
                 blue |-> [found |-> 0, total |-> StartingCards]],
     winner |-> NULL,
     winReason |-> NULL,
     log |-> <<>>]

NewGameState(startingTeam, board) ==
    [board |-> board,
     currentTurn |-> startingTeam,
     startingTeam |-> startingTeam,
     phase |-> "clue",
     currentClue |-> NIL,
     scores |-> [red  |-> [found |-> 0,
                           total |-> IF startingTeam = "red" THEN StartingCards ELSE OtherCards],
                 blue |-> [found |-> 0,
                           total |-> IF startingTeam = "blue" THEN StartingCards ELSE OtherCards]],
     winner |-> NULL,
     winReason |-> NULL,
     log |-> <<>>]


(***************************************************************************)
(* The component state of a client's pages: isCreating, isJoining and      *)
(* error of HomePage, isStarting of LobbyPage (useState).  A page that is  *)
(* left is unmounted and starts from these values when it is shown again.  *)
(***************************************************************************)
FreshPages == [isCreating |-> FALSE, isJoining |-> FALSE, isStarting |-> FALSE,
               error |-> ""]

(***************************************************************************)
(* The room document and the partial-field write update(ref(db), updates). *)
(* A path is a tuple of keys below rooms/<roomCode>.                       *)
(***************************************************************************)
StoredRoom == [status |-> status, teams |-> teams, players |-> players, game |-> game]

\* Every handler reads the stored document itself (a transaction).
RoomFresh(p) == StoredRoom

\* The `room` a client's handlers close over: the latest stored document
\* when its subscription is up to date, else the older snapshot it holds
\* (clientRoom[p].missed notifications are still on their way to it).
Room(p) == IF clientRoom[p] = LIVE THEN StoredRoom ELSE clientRoom[p].room

GameFields == {"board", "currentTurn", "startingTeam", "phase", "currentClue",
               "scores", "winner", "winReason", "log"}

\* A game node none of whose children is stored.
EmptyGame == [board |-> <<>>, currentTurn |-> NULL, startingTeam |-> NULL,
              phase |-> NULL, currentClue |-> NIL, scores |-> NIL,
              winner |-> NULL, winReason |-> NULL, log |-> <<>>]

Written(u, path, old) == IF path \in DOMAIN u THEN u[path] ELSE old

\* updates[path] = value, in the order of the assignments: a later
\* assignment to the same path replaces the earlier one.
Assign(u, path, value) == (path :> value) @@ u

NoUpdates == <<>>

ApplyGame(g, u) ==
    IF <<"game">> \in DOMAIN u THEN u[<<"game">>]
    ELSE IF \A f \in GameFields : <<"game", f>> \notin DOMAIN u THEN g
    ELSE LET base == IF g = NIL THEN EmptyGame ELSE g
             new  == [f \in GameFields |-> Written(u, <<"game", f>>, base[f])]
         IN  IF new = EmptyGame THEN NIL ELSE new

ApplyTeams(ts, u) ==
    [t \in Team |->
        [spymaster  |-> Written(u, <<"teams", t, "spymaster">>, ts[t].spymaster),
         operatives |-> Written(u, <<"teams", t, "operatives">>, ts[t].operatives)]]

\* A player record holds id, team and role (name, email, photo and presence
\* are never read by the handlers); a record written only through its
\* team/role children has no id.
ApplyPlayers(ps, u) ==
    [p \in Users |->
        IF <<"players", p>> \in DOMAIN u THEN u[<<"players", p>>]
        ELSE IF <<"players", p, "team">> \notin DOMAIN u
                /\ <<"players", p, "role">> \notin DOMAIN u THEN ps[p]
        ELSE LET base == IF ps[p] = NIL
                         THEN [id |-> NULL, team |-> NULL, role |-> NULL] ELSE ps[p]
             IN  [id   |-> base.id,
                  team |-> Written(u, <<"players", p, "team">>, base.team),
                  role |-> Written(u, <<"players", p, "role">>, base.role)]]

ApplyUpdates(room, u) ==
    [status  |-> Written(u, <<"status">>, room.status),
     teams   |-> ApplyTeams(room.teams, u),
     players |-> ApplyPlayers(room.players, u),
     game    |-> ApplyGame(room.game, u)]

\* await update(ref(db), updates) issued by client p: the named paths of the
\* stored document are overwritten.  The acknowledgement the handler awaits
\* follows every notification queued before the write, so the client's copy
\* is the latest document when the handler returns.
Write(p, u) ==
    LET new == ApplyUpdates(StoredRoom, u)
    IN  /\ status'  = new.status
        /\ teams'   = new.teams
        /\ players' = new.players
        /\ game'    = new.game
        /\ clientRoom' = [q \in Users |->
                            IF q = p \/ clientRoom[q] = LIVE THEN LIVE
                            ELSE [clientRoom[q] EXCEPT !.missed = @ + 1]]
        /\ UNCHANGED lags

\* The write of a handler that sets no component state of its page.
Update(p, u) == Write(p, u) /\ UNCHANGED ui

(***************************************************************************)
(* GamePage: the flags a client derives from its copy `room` of the        *)
(* document; p is user.uid.                                                *)
(***************************************************************************)
currentPlayer(room, p) == room.players[p]
isSpymaster(room, p)   == currentPlayer(room, p) # NIL /\ currentPlayer(room, p).role = "spymaster"
myTeam(room, p)        == IF currentPlayer(room, p) = NIL THEN NULL ELSE currentPlayer(room, p).team
isMyTurn(room, p)      == room.game.currentTurn = myTeam(room, p)
\* A clue may be given in any phase of the spymaster's turn.
canGiveClueAnyPhase(room, p) == isSpymaster(room, p) /\ isMyTurn(room, p)

canGiveClue(room, p)   == isSpymaster(room, p) /\ isMyTurn(room, p) /\ room.game.phase = "clue"
canGuess(room, p)      == ~isSpymaster(room, p) /\ isMyTurn(room, p) /\ room.game.phase = "guess"

\* The page renders its handlers only once room and room.game are loaded.
GameLoaded(room) == room.game # NIL

(***************************************************************************)
(* Clue words are strings over the alphabet {" ", "a", "A"}.               *)
(***************************************************************************)
RECURSIVE TrimStart(_)
TrimStart(w) == IF w # <<>> /\ Head(w) = " " THEN TrimStart(Tail(w)) ELSE w

RECURSIVE TrimEnd(_)
TrimEnd(w) == IF w # <<>> /\ w[Len(w)] = " " THEN TrimEnd(SubSeq(w, 1, Len(w) - 1)) ELSE w

Trim(w) == TrimEnd(TrimStart(w))

ToUpperCase(w) == [i \in 1..Len(w) |-> IF w[i] = "a" THEN "A" ELSE w[i]]

\* What a spymaster may have typed into the clue box.
ClueInputs == {<<" ">>, <<" ", "a">>}

(***************************************************************************)
(* submitClue                                                              *)
(***************************************************************************)
ClueLogEntry(room, p, clueWord, clueNumber) ==
    [type |-> "clue", team |-> room.game.currentTurn, playerId |-> p,
     clueWord |-> ToUpperCase(Trim(clueWord)), clueNumber |-> clueNumber]

\* The clue allows two guesses beyond its number.
ClueUpdatesTwoBonus(room, p, clueWord, clueNumber) ==
    Assign(Assign(Assign(NoUpdates,
        <<"game", "phase">>, "guess"),
        <<"game", "currentClue">>,
            [word |-> ToUpperCase(Trim(clueWord)), number |-> clueNumber,
             guessesRemaining |-> clueNumber + 2]),
        <<"game", "log">>,
            Append(room.game.log, ClueLogEntry(room, p, clueWord, clueNumber)))

\* The clue allows as many guesses as its number, without the bonus guess.
ClueUpdatesNoBonus(room, p, clueWord, clueNumber) ==
    Assign(Assign(Assign(NoUpdates,
        <<"game", "phase">>, "guess"),
        <<"game", "currentClue">>,
            [word |-> ToUpperCase(Trim(clueWord)), number |-> clueNumber,
             guessesRemaining |-> clueNumber]),
        <<"game", "log">>,
            Append(room.game.log, ClueLogEntry(room, p, clueWord, clueNumber)))

ClueUpdates(room, p, clueWord, clueNumber) ==
    Assign(Assign(Assign(NoUpdates,
        <<"game", "phase">>, "guess"),
        <<"game", "currentClue">>,
            [word |-> ToUpperCase(Trim(clueWord)), number |-> clueNumber,
             guessesRemaining |-> clueNumber + 1]),
        <<"game", "log">>,
            Append(room.game.log, ClueLogEntry(room, p, clueWord, clueNumber)))

SubmitClueAccepted(room, p, clueWord, clueNumber) ==
    /\ GameLoaded(room)
    /\ canGiveClue(room, p)
    /\ Trim(clueWord) # <<>>
    /\ clueNumber >= 1

submitClue(p, clueWord, clueNumber) ==
    IF SubmitClueAccepted(Room(p), p, clueWord, clueNumber)
    THEN Update(p, ClueUpdates(Room(p), p, clueWord, clueNumber))
    ELSE UNCHANGED vars

(***************************************************************************)
(* guessCard.  Cards are indexed from 1 here: board[i] is the card with    *)
(* id i - 1, i.e. game.board[cardIndex] with cardIndex = i - 1.            *)
(***************************************************************************)
Typed(card) == card.type = "red" \/ card.type = "blue"

\* The revealed card is credited to the team that guessed it.
GuessScoresToGuesser(g, card) ==
    IF Typed(card)
    THEN [g.scores EXCEPT ![g.currentTurn] = [@ EXCEPT !.found = @ + 1]]
    ELSE g.scores

\* const newScores = { ...game.scores }; the revealed colour gets found + 1
GuessScores(g, card) ==
    IF Typed(card)
    THEN [g.scores EXCEPT ![card.type] = [@ EXCEPT !.found = @ + 1]]
    ELSE g.scores

\* A correct guess does not use up a guess.
GuessRemainingKept(g) ==
    IF g.currentClue = NIL \/ g.currentClue.guessesRemaining = 0
    THEN 1 ELSE g.currentClue.guessesRemaining

\* (game.currentClue?.guessesRemaining || 1) - 1
GuessRemaining(g) ==
    (IF g.currentClue = NIL \/ g.currentClue.guessesRemaining = 0
     THEN 1 ELSE g.currentClue.guessesRemaining) - 1

\* The assignments that pass the turn to the other team.
PassTurn(u, g) ==
    Assign(Assign(Assign(u,
        <<"game", "currentTurn">>, OtherTeam(g.currentTurn)),
        <<"game", "phase">>, "clue"),
        <<"game", "currentClue">>, NIL)

\* The assignments that end the round.
EndRound(u, winner, winReason) ==
    Assign(Assign(Assign(u,
        <<"game", "winner">>, winner),
        <<"game", "winReason">>, winReason),
        <<"status">>, "finished")

\* The assassin awards the round to the team that revealed it.
GuessOutcomeAssassinSelf(u, g, card, newScores) ==
    IF card.type = "assassin"
    THEN EndRound(u, g.currentTurn, "assassin")
    ELSE IF newScores.red.found = newScores.red.total
    THEN EndRound(u, "red", "all_found")
    ELSE IF newScores.blue.found = newScores.blue.total
    THEN EndRound(u, "blue", "all_found")
    ELSE IF card.type # g.currentTurn
    THEN PassTurn(u, g)
    ELSE IF GuessRemaining(g) <= 0
    THEN PassTurn(u, g)
    ELSE Assign(u, <<"game", "currentClue">>,
                [g.currentClue EXCEPT !.guessesRemaining = GuessRemaining(g)])

\* A completed colour awards the round to the guessing team.
GuessOutcomeGuesserWins(u, g, card, newScores) ==
    IF card.type = "assassin"
    THEN EndRound(u, OtherTeam(g.currentTurn), "assassin")
    ELSE IF newScores.red.found = newScores.red.total
            \/ newScores.blue.found = newScores.blue.total
    THEN EndRound(u, g.currentTurn, "all_found")
    ELSE IF card.type # g.currentTurn
    THEN PassTurn(u, g)
    ELSE IF GuessRemaining(g) <= 0
    THEN PassTurn(u, g)
    ELSE Assign(u, <<"game", "currentClue">>,
                [g.currentClue EXCEPT !.guessesRemaining = GuessRemaining(g)])

\* A wrong card costs a guess instead of the turn.
GuessOutcomeNoPass(u, g, card, newScores) ==
    IF card.type = "assassin"
    THEN EndRound(u, OtherTeam(g.currentTurn), "assassin")
    ELSE IF newScores.red.found = newScores.red.total
    THEN EndRound(u, "red", "all_found")
    ELSE IF newScores.blue.found = newScores.blue.total
    THEN EndRound(u, "blue", "all_found")
    ELSE IF GuessRemaining(g) <= 0
    THEN PassTurn(u, g)
    ELSE Assign(u, <<"game", "currentClue">>,
                [g.currentClue EXCEPT !.guessesRemaining = GuessRemaining(g)])

\* The if / else-if chain that resolves a guess (assassin, red complete,
\* blue complete, wrong card, own card).
GuessOutcome(u, g, card, newScores) ==
    IF card.type = "assassin"
    THEN EndRound(u, OtherTeam(g.currentTurn), "assassin")
    ELSE IF newScores.red.found = newScores.red.total
    THEN EndRound(u, "red", "all_found")
    ELSE IF newScores.blue.found = newScores.blue.total
    THEN EndRound(u, "blue", "all_found")
    ELSE IF card.type # g.currentTurn
    THEN PassTurn(u, g)
    ELSE IF GuessRemaining(g) <= 0
    THEN PassTurn(u, g)
    ELSE Assign(u, <<"game", "currentClue">>,
                [g.currentClue EXCEPT !.guessesRemaining = GuessRemaining(g)])

GuessLogEntry(room, p, i) ==
    [type |-> "guess", team |-> room.game.currentTurn, playerId |-> p,
     guessedWord |-> room.game.board[i].word, cardType |-> room.game.board[i].type]

\* The guess that reveals the assassin is not logged.
GuessUpdatesAssassinSilent(room, p, i) ==
    LET g == room.game
        card == g.board[i]
        newBoard == [g.board EXCEPT ![i] = [card EXCEPT !.revealed = TRUE,
                                                       !.revealedBy = p]]
        newScores == GuessScores(g, card)
        u1 == Assign(NoUpdates, <<"game", "board">>, newBoard)
        u2 == IF Typed(card) THEN Assign(u1, <<"game", "scores">>, newScores) ELSE u1
        u3 == IF card.type = "assassin" THEN u2
              ELSE Assign(u2, <<"game", "log">>, Append(g.log, GuessLogEntry(room, p, i)))
    IN  GuessOutcome(u3, g, card, newScores)

\* The guesser's id is stamped on every card revealed so far.
GuessUpdatesStampAll(room, p, i) ==
    LET g == room.game
        card == g.board[i]
        newBoard == [j \in DOMAIN g.board |->
                        IF j = i THEN [card EXCEPT !.revealed = TRUE, !.revealedBy = p]
                        ELSE IF g.board[j].revealed
                        THEN [g.board[j] EXCEPT !.revealedBy = p]
                        ELSE g.board[j]]
        newScores == GuessScores(g, card)
        u1 == Assign(NoUpdates, <<"game", "board">>, newBoard)
        u2 == IF Typed(card) THEN Assign(u1, <<"game", "scores">>, newScores) ELSE u1
        u3 == Assign(u2, <<"game", "log">>, Append(g.log, GuessLogEntry(room, p, i)))
    IN  GuessOutcome(u3, g, card, newScores)

GuessUpdates(room, p, i) ==
    LET g == room.game
        card == g.board[i]
        newBoard == [g.board EXCEPT ![i] = [card EXCEPT !.revealed = TRUE,
                                                       !.revealedBy = p]]
        newScores == GuessScores(g, card)
        u1 == Assign(NoUpdates, <<"game", "board">>, newBoard)
        u2 == IF Typed(card) THEN Assign(u1, <<"game", "scores">>, newScores) ELSE u1
        u3 == Assign(u2, <<"game", "log">>, Append(g.log, GuessLogEntry(room, p, i)))
    IN  GuessOutcome(u3, g, card, newScores)

\* A revealed card may be guessed again.
GuessAcceptedRevealed(room, p, i) ==
    /\ GameLoaded(room)
    /\ canGuess(room, p)
    /\ i \in 1..Len(room.game.board)

GuessAccepted(room, p, i) ==
    /\ GameLoaded(room)
    /\ canGuess(room, p)
    /\ i \in 1..Len(room.game.board)
    /\ ~room.game.board[i].revealed

\* A game written only in part (by a guess that reached the store after the
\* administrator's reset) may lack its scores: newScores is then {} and
\* reading newScores[card.type].found or newScores.red.found throws before
\* update() is called.  The assassin branch reads no score.
GuessThrows(room, i) ==
    room.game.scores = NIL /\ room.game.board[i].type # "assassin"

guessCard(p, i) ==
    IF GuessAccepted(Room(p), p, i) /\ ~GuessThrows(Room(p), i)
    THEN Update(p, GuessUpdates(Room(p), p, i))
    ELSE UNCHANGED vars

(***************************************************************************)
(* endTurn                                                                 *)
(***************************************************************************)
PassLogEntry(room, p) ==
    [type |-> "pass", team |-> room.game.currentTurn, playerId |-> p]

\* endTurn stores the game as a whole, as the caller's copy has it.
EndTurnUpdatesWholeGame(room, p) ==
    Assign(NoUpdates, <<"game">>,
        [room.game EXCEPT
            !.currentTurn = OtherTeam(room.game.currentTurn),
            !.phase = "clue",
            !.currentClue = NIL,
            !.log = Append(room.game.log, PassLogEntry(room, p))])

\* The pass is not logged.
EndTurnUpdatesNoLog(room, p) == PassTurn(NoUpdates, room.game)

EndTurnUpdates(room, p) ==
    Assign(PassTurn(NoUpdates, room.game),
           <<"game", "log">>, Append(room.game.log, PassLogEntry(room, p)))

\* The turn may be ended only after at least one guess of the clue.
EndTurnAcceptedAfterGuess(room, p) ==
    /\ GameLoaded(room)
    /\ canGuess(room, p)
    /\ room.game.currentClue # NIL
    /\ room.game.currentClue.guessesRemaining <= room.game.currentClue.number

EndTurnAccepted(room, p) == GameLoaded(room) /\ canGuess(room, p)

endTurn(p) ==
    IF EndTurnAccepted(Room(p), p)
    THEN Update(p, EndTurnUpdates(Room(p), p))
    ELSE UNCHANGED vars

(***************************************************************************)
(* Starting a round: playAgain (game view) and startGame (lobby).          *)
(***************************************************************************)
\* startingTeam is the outcome of getRandomStartingTeam(): either team.
RoundUpdates(startingTeam, rndWords, rndTypes) ==
    Assign(Assign(NoUpdates,
        <<"status">>, "playing"),
        <<"game">>, NewGameState(startingTeam,
                                 generateBoard(startingTeam, rndWords, rndTypes)))

\* The Play Again button exists only inside the game-over dialog, which is
\* rendered while the client's copy of the game has a winner.
GameOverShown(room) == GameLoaded(room) /\ room.game.winner # NULL

playAgain(p, startingTeam, rndWords, rndTypes) ==
    /\ GameOverShown(Room(p))
    /\ Update(p, RoundUpdates(startingTeam, rndWords, rndTypes))

\* The lobby leaves for the game view as soon as its copy of the room is
\* playing with a game.
InLobby(room) == ~(room.status = "playing" /\ room.game # NIL)

isHost(p) == p = RedSpy

canStart(room) ==
    /\ room.teams.red.spymaster # NULL
    /\ room.teams.blue.spymaster # NULL
    /\ (Len(room.teams.red.operatives) > 0 \/ Len(room.teams.blue.operatives) > 0)

\* The Start Game button is enabled for the host whatever the teams are.
StartShownAnyTeams(room, p) == InLobby(room) /\ isHost(p)

\* The Start Game button is rendered for the host and disabled unless canStart.
StartShown(room, p) == InLobby(room) /\ isHost(p) /\ canStart(room)

StartGameAccepted(room) ==
    /\ room.teams.red.spymaster # NULL
    /\ room.teams.blue.spymaster # NULL

startGame(p, startingTeam, rndWords, rndTypes) ==
    /\ StartShown(Room(p), p)
    /\ ~ui[p].isStarting
    /\ IF StartGameAccepted(Room(p))
       THEN Update(p, RoundUpdates(startingTeam, rndWords, rndTypes))
       ELSE UNCHANGED vars

(***************************************************************************)
(* LobbyPage: joinTeam and selectRole.                                     *)
(***************************************************************************)
\* joinTeam does not leave the current team.
LeaveUpdatesNone(room, p) == NoUpdates

\* The first half of joinTeam: leave the current team, if any.
LeaveUpdates(room, p) ==
    LET currentTeam == myTeam(room, p)
    IN  IF currentTeam = NULL THEN NoUpdates
        ELSE IF room.teams[currentTeam].spymaster = p
        THEN Assign(NoUpdates, <<"teams", currentTeam, "spymaster">>, NULL)
        ELSE Assign(NoUpdates, <<"teams", currentTeam, "operatives">>,
                    FilterOut(room.teams[currentTeam].operatives, p))

\* The caller's id is pushed even when the list already includes it.
WithOperativePush(operatives, p) == Append(operatives, p)

\* [...operatives], pushing p unless included
WithOperative(operatives, p) ==
    IF Includes(operatives, p) THEN operatives ELSE Append(operatives, p)

\* joinTeam leaves the caller's role as it was.
JoinUpdatesKeepRole(room, p, team) ==
    Assign(Assign(LeaveUpdates(room, p),
        <<"teams", team, "operatives">>, WithOperative(room.teams[team].operatives, p)),
        <<"players", p, "team">>, team)

JoinUpdates(room, p, team) ==
    Assign(Assign(Assign(LeaveUpdates(room, p),
        <<"teams", team, "operatives">>, WithOperative(room.teams[team].operatives, p)),
        <<"players", p, "team">>, team),
        <<"players", p, "role">>, "operative")

joinTeam(p, team) ==
    /\ InLobby(Room(p))
    /\ Update(p, JoinUpdates(Room(p), p, team))

\* The spymaster slot may be claimed while another player holds it.
SelectRoleAcceptedAnySlot(room, p, role) == myTeam(room, p) # NULL

SelectRoleAccepted(room, p, role) ==
    /\ myTeam(room, p) # NULL
    /\ role = "spymaster" =>
           (room.teams[myTeam(room, p)].spymaster \in {NULL, p})

\* selectRole writes both teams: its own as computed, the other one as the
\* caller's copy of the room has it.
RoleUpdatesWholeTeams(room, p, role) ==
    LET team == myTeam(room, p)
        teamData == room.teams[team]
        other == OtherTeam(team)
        u0 == Assign(Assign(NoUpdates,
                  <<"teams", other, "spymaster">>, room.teams[other].spymaster),
                  <<"teams", other, "operatives">>, room.teams[other].operatives)
        u1 == IF role = "spymaster"
              THEN Assign(Assign(u0,
                       <<"teams", team, "operatives">>, FilterOut(teamData.operatives, p)),
                       <<"teams", team, "spymaster">>, p)
              ELSE Assign(IF teamData.spymaster = p
                          THEN Assign(u0, <<"teams", team, "spymaster">>, NULL)
                          ELSE u0,
                       <<"teams", team, "operatives">>, WithOperative(teamData.operatives, p))
    IN  Assign(u1, <<"players", p, "role">>, role)

\* selectRole(operative) leaves the spymaster slot as it is.
RoleUpdatesKeepSlot(room, p, role) ==
    LET team == myTeam(room, p)
        teamData == room.teams[team]
        u1 == IF role = "spymaster"
              THEN Assign(Assign(NoUpdates,
                       <<"teams", team, "operatives">>, FilterOut(teamData.operatives, p)),
                       <<"teams", team, "spymaster">>, p)
              ELSE Assign(NoUpdates,
                       <<"teams", team, "operatives">>, WithOperative(teamData.operatives, p))
    IN  Assign(u1, <<"players", p, "role">>, role)

RoleUpdates(room, p, role) ==
    LET team == myTeam(room, p)
        teamData == room.teams[team]
        u1 == IF role = "spymaster"
              THEN Assign(Assign(NoUpdates,
                       <<"teams", team, "operatives">>, FilterOut(teamData.operatives, p)),
                       <<"teams", team, "spymaster">>, p)
              ELSE Assign(IF teamData.spymaster = p
                          THEN Assign(NoUpdates, <<"teams", team, "spymaster">>, NULL)
                          ELSE NoUpdates,
                       <<"teams", team, "operatives">>, WithOperative(teamData.operatives, p))
    IN  Assign(u1, <<"players", p, "role">>, role)

selectRole(p, role) ==
    /\ InLobby(Room(p))
    /\ IF SelectRoleAccepted(Room(p), p, role)
       THEN Update(p, RoleUpdates(Room(p), p, role))
       ELSE UNCHANGED vars

(***************************************************************************)
(* The subscription: a client may miss notifications for a while (its copy *)
(* stays at the document it last received) and then receives the latest.   *)
(***************************************************************************)
Stale == {p \in Users : clientRoom[p] # LIVE}

\* The clients whose delivery the model delays.
Laggards == {"r2"}

Lag(p) ==
    /\ p \in Laggards
    /\ clientRoom[p] = LIVE
    /\ lags < MaxLags
    /\ lags' = lags + 1
    /\ clientRoom' = [clientRoom EXCEPT ![p] = [room |-> StoredRoom, missed |-> 0]]
    /\ UNCHANGED <<store, ui>>

\* onValue callback: setRoom(snapshot.val())
Deliver(p) ==
    /\ clientRoom[p] # LIVE
    /\ clientRoom' = [clientRoom EXCEPT ![p] = LIVE]
    /\ UNCHANGED <<store, lags, ui>>

(***************************************************************************)
(* Specifications.                                                         *)
(***************************************************************************)
\* The room after createRoom by the host, joinRoom by the others and the
\* team / role choices of the lobby: every team has its spymaster.
Member(p, t, r) == [id |-> p, team |-> t, role |-> r]

Init ==
    /\ status = "waiting"
    /\ teams = [red  |-> [spymaster |-> RedSpy,  operatives |-> <<"r1", "r2">>],
                blue |-> [spymaster |-> BlueSpy, operatives |-> <<"b1">>]]
    /\ players = [p \in Users |->
                    CASE p = RedSpy  -> Member(p, "red", "spymaster")
                      [] p = BlueSpy -> Member(p, "blue", "spymaster")
                      [] p \in {"r1", "r2"} -> Member(p, "red", "operative")
                      [] p = "b1" -> Member(p, "blue", "operative")
                      [] OTHER -> Member(p, NULL, NULL)]
    /\ game = NIL
    /\ clientRoom = [p \in Users |-> LIVE]
    /\ lags = 0
    /\ ui = [p \in Users |-> FreshPages]

\* No other client is MaxMissed notifications behind.
NotTooFarAhead(p) == \A q \in Stale \ {p} : clientRoom[q].missed < MaxMissed

\* The log of the document a client acts on has room for one more entry.
LogRoom(p) ==
    /\ GameLoaded(Room(p)) => Len(Room(p).game.log) < MaxLog
    /\ NotTooFarAhead(p)

StartRound ==
    \E p \in Users, t \in Team :
        \E rw \in WordDraws, rt \in TypeDraws :
            /\ NotTooFarAhead(p)
            /\ \/ startGame(p, t, rw, rt)
               \/ playAgain(p, t, rw, rt)

\* The steps below are the accepted calls; a rejected call returns before
\* any write and leaves every variable as it is.
GiveClue ==
    \E p \in Users, w \in ClueInputs, n \in 0..MaxNumber :
        /\ LogRoom(p)
        /\ SubmitClueAccepted(Room(p), p, w, n)
        /\ submitClue(p, w, n)

Guess ==
    \E p \in Users, i \in 1..BoardSize :
        /\ LogRoom(p)
        /\ GuessAccepted(Room(p), p, i)
        /\ guessCard(p, i)

Pass ==
    \E p \in Users :
        /\ LogRoom(p)
        /\ EndTurnAccepted(Room(p), p)
        /\ endTurn(p)

Subscription == \E p \in Users : Lag(p) \/ Deliver(p)

\* Serialized execution: every handler runs on the latest stored document.
NextSerial == StartRound \/ GiveClue \/ Guess \/ Pass

SpecSerial == Init /\ [][NextSerial]_vars

\* Concurrent clients: handlers may run on a snapshot that lags the store.
Next == NextSerial \/ Subscription

Spec == Init /\ [][Next]_vars

\* The lobby right after createRoom and joinRoom: nobody has picked a team.
LobbyInit ==
    /\ status = "waiting"
    /\ teams = [t \in Team |-> [spymaster |-> NULL, operatives |-> <<>>]]
    /\ players = [p \in Users |-> Member(p, NULL, NULL)]
    /\ game = NIL
    /\ clientRoom = [p \in Users |-> LIVE]
    /\ lags = 0
    /\ ui = [p \in Users |-> FreshPages]

\* The players who pick teams and roles in the lobby specification.
LobbyUsers == {"r1", "r2", "b1"}

JoinTeam == \E p \in LobbyUsers, t \in Team : NotTooFarAhead(p) /\ joinTeam(p, t)

SelectRole ==
    \E p \in LobbyUsers, r \in {"spymaster", "operative"} :
        NotTooFarAhead(p) /\ selectRole(p, r)

NextLobby == JoinTeam \/ SelectRole \/ Subscription

SpecLobby == LobbyInit /\ [][NextLobby]_vars

(***************************************************************************)
(* AdminPage: kickPlayer, called with the id field of a listed player      *)
(* record and computed from the administrator's copy of the room.          *)
(***************************************************************************)
\* room.players?.[playerId]
PlayerAt(room, playerId) == IF playerId \in Users THEN room.players[playerId] ELSE NIL

KickUpdates(room, playerId) ==
    LET player == PlayerAt(room, playerId)
        playerTeam == IF player = NIL THEN NULL ELSE player.team
        u1 == Assign(NoUpdates, <<"players", playerId>>, NIL)
    IN  IF playerTeam = NULL THEN u1
        ELSE LET teamData == room.teams[playerTeam]
                 u2 == IF teamData.spymaster = playerId
                       THEN Assign(u1, <<"teams", playerTeam, "spymaster">>, NULL)
                       ELSE u1
             IN  IF teamData.operatives # <<>>
                 THEN Assign(u2, <<"teams", playerTeam, "operatives">>,
                             FilterOut(teamData.operatives, playerId))
                 ELSE u2

\* The administrator is no player of the room; the Kick button of a listed
\* player q passes q's id field, which a record written only through its
\* team and role children does not have.
Admin == "admin"

kickPlayer(q) ==
    /\ StoredRoom.players[q] # NIL
    /\ Update(Admin, KickUpdates(StoredRoom, StoredRoom.players[q].id))

(***************************************************************************)
(* The lobby under serialized execution: the host, a second player and a   *)
(* third pick teams and roles, the administrator kicks players, the host   *)
(* starts the game.                                                        *)
(***************************************************************************)
TeamUsers == {RedSpy, BlueSpy, "r1"}

JoinTeamSerial == \E p \in TeamUsers, t \in Team : joinTeam(p, t)

SelectRoleSerial ==
    \E p \in TeamUsers, r \in {"spymaster", "operative"} : selectRole(p, r)

KickPlayer == \E q \in TeamUsers : kickPlayer(q)

StartGame ==
    \E p \in TeamUsers, t \in Team :
        \E rw \in WordDraws, rt \in TypeDraws : startGame(p, t, rw, rt)

NextTeams == JoinTeamSerial \/ SelectRoleSerial \/ KickPlayer \/ StartGame

SpecTeams == LobbyInit /\ [][NextTeams]_vars

(***************************************************************************)
(* GamePage: the number box of the clue form.  What the spymaster types is *)
(* a string over the digits and "-"; its onChange handler stores           *)
(* Math.max(1, parseInt(e.target.value) || 1) as clueNumber.               *)
(***************************************************************************)
DigitChars == <<"0", "1", "2", "3", "4", "5", "6", "7", "8", "9">>

IsDigit(ch) == \E d \in 1..Len(DigitChars) : DigitChars[d] = ch

DigitValue(ch) == (CHOOSE d \in 1..Len(DigitChars) : DigitChars[d] = ch) - 1

\* A JavaScript number: NaN, or a finite value.
NaN == [nan |-> TRUE, value |-> 0]

Number(n) == [nan |-> FALSE, value |-> n]

\* The value of the leading digits of s, read after the digits worth acc.
RECURSIVE ParseDigits(_, _)
ParseDigits(s, acc) ==
    IF s = <<>> \/ ~IsDigit(Head(s)) THEN acc
    ELSE ParseDigits(Tail(s), 10 * acc + DigitValue(Head(s)))

parseInt(s) ==
    LET neg  == s # <<>> /\ Head(s) = "-"
        body == IF neg THEN Tail(s) ELSE s
    IN  IF body = <<>> \/ ~IsDigit(Head(body)) THEN NaN
        ELSE IF neg THEN Number(0 - ParseDigits(body, 0))
        ELSE Number(ParseDigits(body, 0))

\* x || 1
OrOne(x) == IF x.nan \/ x.value = 0 THEN 1 ELSE x.value

\* Math.max(1, x)
MaxOne(x) == IF x < 1 THEN 1 ELSE x

\* The clueNumber the form holds after v was typed into the number box.
ClueNumberTyped(v) == MaxOne(OrOne(parseInt(v)))

\* The max attribute of the number box.
MaxClueNumber == 9

\* What a spymaster may have typed into the number box.
NumberInputs == {<<>>, <<"0">>, <<"-", "1">>, <<"2">>, <<"9">>, <<"1", "0">>}

\* The spymaster types a word and a number and presses Submit.
GiveClueTyped ==
    \E p \in Users, w \in ClueInputs, v \in NumberInputs :
        /\ LogRoom(p)
        /\ SubmitClueAccepted(Room(p), p, w, ClueNumberTyped(v))
        /\ submitClue(p, w, ClueNumberTyped(v))

NextTyped == StartRound \/ GiveClueTyped \/ Guess \/ Pass

SpecTyped == Init /\ [][NextTyped]_vars

(***************************************************************************)
(* Board generation under every outcome of the two shuffles.               *)
(***************************************************************************)
\* All outcomes of the draws of one Fisher-Yates run over n elements:
\* rnd[i] is any index in 1..i.
RECURSIVE Draws(_)
Draws(n) == IF n = 0 THEN {<<>>} ELSE {Append(rnd, j) : rnd \in Draws(n - 1), j \in 1..n}

AllWordDraws == Draws(Len(WORD_LIST))
AllTypeDraws == Draws(BoardSize)

\* The host starts the round; getRandomStartingTeam and the two shuffles of
\* generateBoard take any of their outcomes.
DealBoard ==
    /\ StartShown(StoredRoom, RedSpy)
    /\ \E t \in Team :
          \E rw \in AllWordDraws, rt \in AllTypeDraws : startGame(RedSpy, t, rw, rt)

NextBoard == DealBoard

SpecBoard == Init /\ [][NextBoard]_vars

(***************************************************************************)
(* HomePage: createRoom and joinRoom; LobbyPage: a startGame whose write   *)
(* is refused; AdminPage: endGame.  Room codes are strings over the        *)
(* alphabet of the clue words, and the stored room has the code RoomCode.  *)
(***************************************************************************)
RoomCode == <<"A">>

\* What a user may have typed into the code box.
JoinInputs == {<<" ">>, <<" ", "a">>, <<"A", "A">>}

\* The store answers every request, refuses the read, or refuses the write.
JoinOutcomes   == {"ok", "getFails", "setFails"}
CreateOutcomes == {"ok", "sameCode", "setFails"}

ErrCreate   == "Failed to create room. Please try again."
ErrNotFound == "Room not found. Check the code and try again."
ErrEnded    == "This game has already ended."
ErrJoin     == "Failed to join room. Please try again."

\* The handler ends on HomePage showing msg, its finally block done.
Refused(p, msg) ==
    /\ ui' = [ui EXCEPT ![p].error = msg, ![p].isCreating = FALSE, ![p].isJoining = FALSE]
    /\ UNCHANGED <<store, clientRoom, lags>>

\* navigate(`/room/${code}`): HomePage is left and LobbyPage is mounted.
Entered(p) == ui' = [ui EXCEPT ![p] = FreshPages]

\* room.players is undefined when no player record is stored.
NoPlayers(room) == \A q \in Users : room.players[q] = NIL

JoinRoomUpdates(p) == Assign(NoUpdates, <<"players", p>>, Member(p, NULL, NULL))

\* The caller's record is written whether or not one is stored.
joinRoomAlwaysSet(p, joinCode, outcome) ==
    IF Trim(joinCode) = <<>> THEN UNCHANGED vars
    ELSE LET code == Trim(ToUpperCase(joinCode))
         IN  IF outcome = "getFails" THEN Refused(p, ErrJoin)
             ELSE IF code # RoomCode THEN Refused(p, ErrNotFound)
             ELSE IF StoredRoom.status = "finished" THEN Refused(p, ErrEnded)
             ELSE IF NoPlayers(StoredRoom) THEN Refused(p, ErrJoin)
             ELSE IF outcome = "setFails" THEN Refused(p, ErrJoin)
             ELSE Write(p, JoinRoomUpdates(p)) /\ Entered(p)

joinRoom(p, joinCode, outcome) ==
    IF Trim(joinCode) = <<>> THEN UNCHANGED vars
    ELSE LET code == Trim(ToUpperCase(joinCode))
         IN  IF outcome = "getFails" THEN Refused(p, ErrJoin)
             ELSE IF code # RoomCode THEN Refused(p, ErrNotFound)
             ELSE IF StoredRoom.status = "finished" THEN Refused(p, ErrEnded)
             ELSE IF NoPlayers(StoredRoom) THEN Refused(p, ErrJoin)
             ELSE IF StoredRoom.players[p] = NIL
             THEN IF outcome = "setFails" THEN Refused(p, ErrJoin)
                  ELSE Write(p, JoinRoomUpdates(p)) /\ Entered(p)
             ELSE Entered(p) /\ UNCHANGED <<store, clientRoom, lags>>

\* const newRoom: Room = {...}: the creator is its only player.
NewRoom(p) ==
    [status  |-> "waiting",
     teams   |-> [t \in Team |-> [spymaster |-> NULL, operatives |-> <<>>]],
     players |-> [q \in Users |-> IF q = p THEN Member(p, NULL, NULL) ELSE NIL],
     game    |-> NIL]

\* await set(roomRef, room): the document at rooms/<roomCode> is replaced
\* as a whole, whether or not one is stored there.
Set(p, room) ==
    /\ status'  = room.status
    /\ teams'   = room.teams
    /\ players' = room.players
    /\ game'    = room.game
    /\ clientRoom' = [q \in Users |->
                        IF q = p \/ clientRoom[q] = LIVE THEN LIVE
                        ELSE [clientRoom[q] EXCEPT !.missed = @ + 1]]
    /\ UNCHANGED lags

\* createRoom.  generateRoomCode draws six characters at random and nothing
\* looks the code up before set(): with outcome "ok" the code is one that no
\* room holds (the new room is another document than the one modelled
\* here), with "sameCode" it is the code of the stored room.
createRoom(p, outcome) ==
    IF outcome = "setFails" THEN Refused(p, ErrCreate)
    ELSE IF outcome = "sameCode" THEN Set(p, NewRoom(p)) /\ Entered(p)
    ELSE Entered(p) /\ UNCHANGED <<store, clientRoom, lags>>

\* startGame when update() rejects: nothing follows the await, and the
\* rejection is handled nowhere.
startGameFails(p) ==
    /\ StartShown(Room(p), p)
    /\ ~ui[p].isStarting
    /\ StartGameAccepted(Room(p))
    /\ ui' = [ui EXCEPT ![p].isStarting = TRUE]
    /\ UNCHANGED <<store, clientRoom, lags>>

\* The administrator a ends the game of the room.
endGame(a) ==
    /\ a = Admin
    /\ Update(a, Assign(NoUpdates, <<"status">>, "finished"))

\* The user who leaves for HomePage and joins the room again, and the one
\* who creates another room.
Joiners == {"b1"}
Creators == {"x"}

JoinRoom ==
    \E p \in Joiners, c \in JoinInputs, o \in JoinOutcomes : joinRoom(p, c, o)

CreateRoom == \E p \in Creators, o \in CreateOutcomes : createRoom(p, o)

KickAny == \E q \in Users : kickPlayer(q)

StartGameHost ==
    \E t \in Team : \E rw \in WordDraws, rt \in TypeDraws : startGame(RedSpy, t, rw, rt)

StartGameFails == \E p \in {RedSpy} : startGameFails(p)

EndGame == endGame(Admin)

NextHome ==
    JoinRoom \/ CreateRoom \/ KickAny \/ StartGameHost \/ StartGameFails \/ EndGame

\* From the room in which everybody has joined and picked a team.
SpecHome == Init /\ [][NextHome]_vars

(***************************************************************************)
(* A round on a board of the size the code deals: 25 cards, 9 of the       *)
(* starting team, 8 of the other team, 7 neutral and the assassin, with    *)
(* the totals 9 and 8 in the scores.  The two shuffles keep every element  *)
(* in place (one outcome of Math.random), and guesses are drawn from a few *)
(* cards of every type.                                                    *)
(***************************************************************************)
BoardSize25     == 25
StartingCards25 == 9
OtherCards25    == 8
NeutralCards25  == 7

\* A vocabulary of distinct words, one more than the board takes.
WORD_LIST25 == [i \in 1..(BoardSize25 + 1) |-> i]

generateBoard25(startingTeam, rndWords, rndTypes) ==
    LET words == SubSeq(shuffleArray(WORD_LIST25, rndWords), 1, BoardSize25)
        types == Fill(IF startingTeam = "red" THEN StartingCards25 ELSE OtherCards25, "red")
                 \o Fill(IF startingTeam = "blue" THEN StartingCards25 ELSE OtherCards25, "blue")
                 \o Fill(NeutralCards25, "neutral")
                 \o <<"assassin">>
        shuffledTypes == shuffleArray(types, rndTypes)
    IN  [index \in 1..Len(words) |->
            [id |-> index - 1, word |-> words[index], type |-> shuffledTypes[index],
             revealed |-> FALSE, revealedBy |-> NULL]]

NewGameState25(startingTeam, board) ==
    [board |-> board,
     currentTurn |-> startingTeam,
     startingTeam |-> startingTeam,
     phase |-> "clue",
     currentClue |-> NIL,
     scores |-> [red  |-> [found |-> 0,
                           total |-> IF startingTeam = "red"
                                     THEN StartingCards25 ELSE OtherCards25],
                 blue |-> [found |-> 0,
                           total |-> IF startingTeam = "blue"
                                     THEN StartingCards25 ELSE OtherCards25]],
     winner |-> NULL,
     winReason |-> NULL,
     log |-> <<>>]

RoundUpdates25(startingTeam, rndWords, rndTypes) ==
    Assign(Assign(NoUpdates,
        <<"status">>, "playing"),
        <<"game">>, NewGameState25(startingTeam,
                                   generateBoard25(startingTeam, rndWords, rndTypes)))

startGame25(p, startingTeam, rndWords, rndTypes) ==
    /\ StartShown(Room(p), p)
    /\ ~ui[p].isStarting
    /\ IF StartGameAccepted(Room(p))
       THEN Update(p, RoundUpdates25(startingTeam, rndWords, rndTypes))
       ELSE UNCHANGED vars

\* With the shuffles keeping every element in place the reds come first,
\* then the blues, the neutrals and the assassin: two red cards, two blue
\* cards, a neutral card and the assassin, whichever team starts.
TraceCards == {1, 2, StartingCards25 + 1, StartingCards25 + 2,
               StartingCards25 + OtherCards25 + 1, BoardSize25}

StartRound25 ==
    \E t \in Team :
        startGame25(RedSpy, t, KeepDraws(Len(WORD_LIST25)), KeepDraws(BoardSize25))

Guess25 ==
    \E p \in Users, i \in TraceCards :
        /\ LogRoom(p)
        /\ GuessAccepted(Room(p), p, i)
        /\ guessCard(p, i)

NextTrace == StartRound25 \/ GiveClue \/ Guess25 \/ Pass

SpecTrace == Init /\ [][NextTrace]_vars

(***************************************************************************)
(* A room from its lobby to the end of its first round, under serialized   *)
(* execution: teams and roles are picked before the host starts the game   *)
(* and are left alone afterwards, and no administrator acts.               *)
(***************************************************************************)
LobbyJoin == game = NIL /\ JoinTeamSerial

LobbySelect == game = NIL /\ SelectRoleSerial

NextRound == LobbyJoin \/ LobbySelect \/ StartGame \/ GiveClue \/ Guess \/ Pass

SpecRound == LobbyInit /\ [][NextRound]_vars

(***************************************************************************)
(* Rounds one after the other under serialized execution: the lobby stays  *)
(* open to its players whenever no round is being played (before the first *)
(* start, and while status is finished), and Play Again starts the next    *)
(* round from the game-over dialog.                                        *)
(***************************************************************************)
\* The player who changes team and role between the rounds.
LobbyMovers == {RedSpy}

JoinTeamAgain == \E p \in LobbyMovers, t \in Team : joinTeam(p, t)

SelectRoleAgain ==
    \E p \in LobbyMovers, r \in {"spymaster", "operative"} : selectRole(p, r)

NextAgain == NextSerial \/ JoinTeamAgain \/ SelectRoleAgain

SpecAgain == Init /\ [][NextAgain]_vars

(***************************************************************************)
(* AdminPage: Reset Game, next to End Game, and the rounds of a room whose *)
(* administrator uses both while the players play.                         *)
(***************************************************************************)
\* Reset Game sets the status back and leaves the game where it is.
resetGameKeepsGame(a) ==
    /\ a = Admin
    /\ Update(a, Assign(NoUpdates, <<"status">>, "waiting"))

resetGame(a) ==
    /\ a = Admin
    /\ Update(a, Assign(Assign(NoUpdates, <<"status">>, "waiting"), <<"game">>, NIL))

\* The administrator's writes, while no client is MaxMissed notifications
\* behind.
ResetGame == NotTooFarAhead(Admin) /\ resetGame(Admin)

EndGameAnyTime == NotTooFarAhead(Admin) /\ endGame(Admin)

\* Concurrent clients and the administrator.
NextAdmin == Next \/ ResetGame \/ EndGameAnyTime

SpecAdmin == Init /\ [][NextAdmin]_vars

(***************************************************************************)
(* Concurrent clients in a room whose lobby stays in use between rounds.   *)
(***************************************************************************)
\* A player goes back to the lobby of a room whose round is over.
JoinTeamLagging ==
    \E p \in LobbyMovers, t \in Team :
        game # NIL /\ NotTooFarAhead(p) /\ joinTeam(p, t)

SelectRoleLagging ==
    \E p \in LobbyMovers, r \in {"spymaster", "operative"} :
        game # NIL /\ NotTooFarAhead(p) /\ selectRole(p, r)

\* The host starts the rounds from the lobby.
StartGameLagging ==
    \E t \in Team : \E rw \in WordDraws, rt \in TypeDraws :
        NotTooFarAhead(RedSpy) /\ startGame(RedSpy, t, rw, rt)

NextFrame ==
    \/ StartGameLagging \/ GiveClue \/ Guess \/ Pass \/ Subscription
    \/ JoinTeamLagging \/ SelectRoleLagging

SpecFrame == Init /\ [][NextFrame]_vars

(***************************************************************************)
(* Properties.                                                             *)
(***************************************************************************)
Cards == 1..BoardSize

RevealedOf(g, type) == {i \in 1..Len(g.board) : g.board[i].type = type /\ g.board[i].revealed}

\* The scores computed by the guess of card i show a team with all its
\* cards found.
Complete(g, i) ==
    \E t \in Team : GuessScores(g, g.board[i])[t].found = GuessScores(g, g.board[i])[t].total

\* C1: once game.winner is non-null, no submitClue, guessCard or endTurn
\* changes the game or the room status.
C1_TerminalFrozen ==
    [][(game # NIL /\ game.winner # NULL /\ (GiveClue \/ Guess \/ Pass))
           => (game' = game /\ status' = status)]_vars

\* C2: an accepted guess of the assassin card ends the round with the team
\* other than the guesser's as winner, reason assassin, status finished,
\* whatever the scores are.
C2_AssassinEndsRound ==
    [][\A p \in Users, i \in Cards :
          (/\ GuessAccepted(Room(p), p, i)
           /\ Room(p).game.board[i].type = "assassin"
           /\ guessCard(p, i))
          => (/\ game'.winner = OtherTeam(myTeam(Room(p), p))
              /\ game'.winReason = "assassin"
              /\ status' = "finished")]_vars

\* A round lost to the assassin by a team that had already found a card.
C2_Witness ==
    /\ game # NIL
    /\ status = "finished"
    /\ game.winReason = "assassin"
    /\ \E i \in Cards :
          /\ game.board[i].type = "assassin"
          /\ game.board[i].revealed
          /\ game.winner = OtherTeam(players[game.board[i].revealedBy].team)
          /\ game.scores[players[game.board[i].revealedBy].team].found > 0

\* C3: an accepted guess of the guessing team's own colour that brings its
\* found up to its total makes that team the winner (all_found, finished)
\* and does not pass the turn.
C3_OwnColourCompletes ==
    [][\A p \in Users, i \in Cards :
          (/\ GuessAccepted(Room(p), p, i)
           /\ game.board[i].type = game.currentTurn
           /\ game.scores[game.currentTurn].found + 1 = game.scores[game.currentTurn].total
           /\ guessCard(p, i))
          => (/\ game'.winner = game.currentTurn
              /\ game'.winReason = "all_found"
              /\ status' = "finished"
              /\ game'.currentTurn = game.currentTurn
              /\ game'.phase = game.phase)]_vars

\* The guess of p at card i ends the round with reason all_found.
SetsAllFound(room, p, i) ==
    /\ <<"game", "winReason">> \in DOMAIN GuessUpdates(room, p, i)
    /\ GuessUpdates(room, p, i)[<<"game", "winReason">>] = "all_found"

\* C4 as stated: an all_found win goes to the guesser's team and the
\* revealed card has that team's colour.
C4_AllFoundToGuesser ==
    [][\A p \in Users, i \in Cards :
          (/\ GuessAccepted(Room(p), p, i)
           /\ SetsAllFound(Room(p), p, i)
           /\ guessCard(p, i))
          => (/\ game'.winner = myTeam(Room(p), p)
              /\ Room(p).game.board[i].type = myTeam(Room(p), p))]_vars

\* C4 amended: an all_found win goes to a team whose found equals its total
\* in the scores the guess computed (red when both do), whichever team
\* guessed.
C4_AllFoundToCompleteTeam ==
    [][\A p \in Users, i \in Cards :
          (/\ GuessAccepted(Room(p), p, i)
           /\ SetsAllFound(Room(p), p, i)
           /\ guessCard(p, i))
          => LET newScores == GuessScores(Room(p).game, Room(p).game.board[i])
             IN  /\ game'.winner \in Team
                 /\ newScores[game'.winner].found = newScores[game'.winner].total
                 /\ game'.winner = "blue" => newScores.red.found # newScores.red.total
                 /\ status' = "finished"]_vars

\* An all_found win of the team that was not guessing: the card that
\* completed the winner's colour was revealed by a player of the other team.
C4_Witness ==
    /\ game # NIL
    /\ game.winReason = "all_found"
    /\ game.scores[game.winner].found = game.scores[game.winner].total
    /\ game.currentTurn = OtherTeam(game.winner)
    /\ \E i \in Cards :
          /\ game.board[i].type = game.winner
          /\ game.board[i].revealed
          /\ players[game.board[i].revealedBy].team = OtherTeam(game.winner)
    /\ game.log # <<>>
    /\ game.log[Len(game.log)].type = "guess"
    /\ game.log[Len(game.log)].cardType = game.winner
    /\ game.log[Len(game.log)].team = OtherTeam(game.winner)

WrongCard(room, p, i) ==
    room.game.board[i].type \in {"neutral", OtherTeam(room.game.currentTurn)}

TurnPassed(room) ==
    /\ game'.currentTurn = OtherTeam(room.game.currentTurn)
    /\ game'.phase = "clue"
    /\ game'.currentClue = NIL

\* C5 as stated: every accepted guess of a neutral card or of a card of the
\* other team's colour passes the turn.
C5_WrongCardPassesTurn ==
    [][\A p \in Users, i \in Cards :
          (/\ GuessAccepted(Room(p), p, i)
           /\ WrongCard(Room(p), p, i)
           /\ guessCard(p, i))
          => TurnPassed(Room(p))]_vars

\* C5 amended: such a guess passes the turn unless the scores it computed
\* show a team complete; then it ends the round (all_found) and writes
\* neither currentTurn, phase nor currentClue.
C5_WrongCardPassesUnlessComplete ==
    [][\A p \in Users, i \in Cards :
          (/\ GuessAccepted(Room(p), p, i)
           /\ WrongCard(Room(p), p, i)
           /\ guessCard(p, i))
          => IF Complete(Room(p).game, i)
             THEN /\ game'.winReason = "all_found"
                  /\ status' = "finished"
                  /\ game'.currentTurn = game.currentTurn
                  /\ game'.phase = game.phase
                  /\ game'.currentClue = game.currentClue
             ELSE TurnPassed(Room(p))]_vars

\* The turn has just passed on the guess of a neutral card.
C5_Witness ==
    /\ game # NIL
    /\ game.log # <<>>
    /\ LET e == game.log[Len(game.log)]
       IN  /\ e.type = "guess"
           /\ e.cardType = "neutral"
           /\ game.currentTurn = OtherTeam(e.team)
           /\ game.phase = "clue"
           /\ game.currentClue = NIL
           /\ game.winner = NULL

\* Two operatives guess from the same snapshot: p2 still holds the document
\* from which p1 guessed c1, p1's write is stored, and p2 now guesses c2.
GuessRace(p1, c1, p2, c2) ==
    /\ clientRoom[p2] # LIVE
    /\ p1 # p2
    /\ c1 # c2
    /\ GuessAccepted(clientRoom[p2].room, p1, c1)
    /\ GuessAccepted(clientRoom[p2].room, p2, c2)
    /\ StoredRoom = ApplyUpdates(clientRoom[p2].room,
                                 GuessUpdates(clientRoom[p2].room, p1, c1))
    /\ guessCard(p2, c2)

\* C6: after both writes of the race the stored board shows c2 revealed and
\* c1 unrevealed, and the stored log holds the entry of c2 but not the
\* entry of c1.
C6_GuessRaceNotMerged ==
    [][\A p2 \in Stale : \A p1 \in Users, c1 \in Cards, c2 \in Cards :
          GuessRace(p1, c1, p2, c2)
          => (/\ game'.board[c2].revealed
              /\ ~game'.board[c1].revealed
              /\ GuessLogEntry(clientRoom[p2].room, p2, c2) \in Range(game'.log)
              /\ GuessLogEntry(clientRoom[p2].room, p1, c1) \notin Range(game'.log))]_vars

\* The state after such a race: the first guess counted a card for its
\* colour, the second guess (by the client that lagged) put back a board on
\* which that card is unrevealed.
C6_Witness ==
    /\ game # NIL
    /\ lags = 1
    /\ Stale = {}
    /\ \E c2 \in Cards : game.board[c2].revealed /\ game.board[c2].revealedBy \in Laggards
    /\ \E t \in Team : Cardinality(RevealedOf(game, t)) < game.scores[t].found
    /\ game.log[Len(game.log)].type = "guess"
    /\ game.log[Len(game.log)].playerId \in Laggards

SpymastersOf(ps, t) ==
    {p \in Users : ps[p] # NIL /\ ps[p].team = t /\ ps[p].role = "spymaster"}

\* Two players of one team claim the empty spymaster slot from the same
\* snapshot: B still holds the document from which A claimed it, A's write
\* is stored, and B now claims it.
SpymasterRace(A, B, t) ==
    /\ clientRoom[B] # LIVE
    /\ A # B
    /\ myTeam(clientRoom[B].room, A) = t
    /\ myTeam(clientRoom[B].room, B) = t
    /\ clientRoom[B].room.teams[t].spymaster = NULL
    /\ StoredRoom = ApplyUpdates(clientRoom[B].room,
                                 RoleUpdates(clientRoom[B].room, A, "spymaster"))
    /\ selectRole(B, "spymaster")

\* C7: once both writes of the race are applied and every client holds the
\* resulting document, at most one player of the team has role spymaster
\* and that player is teams[team].spymaster.
C7_SpymasterRaceTransient ==
    [][\A B \in Stale : \A A \in Users, t \in Team :
          (SpymasterRace(A, B, t) /\ \A p \in Users : clientRoom'[p] = LIVE)
          => (/\ Cardinality(SpymastersOf(players', t)) <= 1
              /\ \A p \in SpymastersOf(players', t) : teams'[t].spymaster = p)]_vars

\* C8: currentClue is null exactly when phase = clue.
C8_ClueIffGuessPhase ==
    game # NIL => ((game.currentClue = NIL) <=> (game.phase = "clue"))

\* C9: within a round each team's total never changes, its found never
\* decreases from one stored state to the next, and found <= total.
C9_TeamScore ==
    [][(game # NIL /\ ~StartRound)
          => \A t \in Team :
                /\ game'.scores[t].total = game.scores[t].total
                /\ game'.scores[t].found >= game.scores[t].found
                /\ game'.scores[t].found <= game'.scores[t].total]_vars

\* C10: a round is started only when the stored status is waiting or
\* finished; a round in progress is never replaced.
C10_StartOnlyWhenIdle ==
    [][StartRound
          => (/\ status \in {"waiting", "finished"}
              /\ ~(status = "playing" /\ game # NIL /\ game.winner = NULL))]_vars

\* The operatives of both teams together.
OperativeCount(room) == Len(room.teams.red.operatives) + Len(room.teams.blue.operatives)

\* C11: startGame sets status = playing only if, in the room it acts on,
\* both teams have a spymaster and the two operatives lists together hold
\* at least one player.
C11_StartNeedsOperative ==
    [][\A p \in Users, t \in Team, rw \in WordDraws, rt \in TypeDraws :
          (startGame(p, t, rw, rt) /\ status' = "playing")
          => (/\ Room(p).teams.red.spymaster # NULL
              /\ Room(p).teams.blue.spymaster # NULL
              /\ OperativeCount(Room(p)) >= 1)]_vars

\* A game started with two spymasters and a single operative.
C11_Witness ==
    /\ status = "playing"
    /\ game # NIL
    /\ game.log = <<>>
    /\ teams.red.spymaster # NULL
    /\ teams.blue.spymaster # NULL
    /\ OperativeCount(StoredRoom) = 1

\* The stored log after the step is the log of the acting client's copy
\* followed by exactly one entry of the given type and team.
OneEntryAppended(room, type, team) ==
    /\ Len(game'.log) = Len(room.game.log) + 1
    /\ SubSeq(game'.log, 1, Len(room.game.log)) = room.game.log
    /\ game'.log[Len(game'.log)].type = type
    /\ game'.log[Len(game'.log)].team = team

\* The effects of an accepted submitClue that store `word` as the clue word.
ClueStored(room, p, word, n) ==
    /\ game'.phase = "guess"
    /\ game'.currentClue = [word |-> word, number |-> n, guessesRemaining |-> n + 1]
    /\ game'.currentTurn = game.currentTurn
    /\ OneEntryAppended(room, "clue", room.game.currentTurn)

\* C12 as stated: an accepted submitClue with word w and number n gives
\* phase = guess and currentClue = {word: w, number: n, guessesRemaining:
\* n + 1}, leaves currentTurn unchanged and appends one clue log entry of
\* the current team.
C12_ClueStoredAsTyped ==
    [][\A p \in Users, w \in ClueInputs, n \in 0..MaxNumber :
          (SubmitClueAccepted(Room(p), p, w, n) /\ submitClue(p, w, n))
          => ClueStored(Room(p), p, w, n)]_vars

\* C12 amended: the stored clue word is w with the surrounding white space
\* removed and its letters in upper case; the rest is as stated.
C12_ClueStoredNormalised ==
    [][\A p \in Users, w \in ClueInputs, n \in 0..MaxNumber :
          (SubmitClueAccepted(Room(p), p, w, n) /\ submitClue(p, w, n))
          => ClueStored(Room(p), p, ToUpperCase(Trim(w)), n)]_vars

\* The clue typed as " a" with the largest number has just been stored.
C12_Witness ==
    /\ game # NIL
    /\ game.phase = "guess"
    /\ game.currentClue = [word |-> <<"A">>, number |-> MaxNumber,
                           guessesRemaining |-> MaxNumber + 1]
    /\ game.log # <<>>
    /\ game.log[Len(game.log)].type = "clue"
    /\ game.log[Len(game.log)].team = game.currentTurn

\* The conditions C13 names, read from the room the submitter acts on.
ClueConditions(room, p, w, n) ==
    /\ room.game # NIL
    /\ room.game.phase = "clue"
    /\ room.players[p] # NIL
    /\ room.players[p].team = room.game.currentTurn
    /\ room.players[p].role = "spymaster"
    /\ Trim(w) # <<>>
    /\ n >= 1

\* C13: unless phase = clue, the submitter's team is currentTurn, the
\* submitter is a spymaster, the trimmed word is non-empty and number >= 1,
\* no submitClue call changes anything (the room, or any client's state).
C13_ClueRejectedUnchanged ==
    \A p \in Users, w \in ClueInputs, n \in 0..MaxNumber :
        ~ClueConditions(Room(p), p, w, n)
        => ~ENABLED (submitClue(p, w, n) /\ vars' # vars)

\* A guess phase in which the spymaster of the team on turn, the other
\* team's spymaster, an operative and a teamless player are all present:
\* every submitClue call is one of the rejected cases.
C13_Witness ==
    /\ game # NIL
    /\ game.phase = "guess"
    /\ game.winner = NULL
    /\ \E p, q \in Users :
          /\ players[p].role = "spymaster" /\ players[p].team = game.currentTurn
          /\ players[q].role = "spymaster" /\ players[q].team # game.currentTurn
    /\ \E p \in Users : players[p].role = "operative"
    /\ \E p \in Users : players[p].team = NULL
    /\ \A p \in Users, w \in ClueInputs, n \in 0..MaxNumber :
          ~ClueConditions(Room(p), p, w, n)

\* The conditions C14 names, read from the room the guesser acts on.
GuessConditions(room, p, i) ==
    /\ room.game # NIL
    /\ room.game.phase = "guess"
    /\ room.players[p] # NIL
    /\ room.players[p].team = room.game.currentTurn
    /\ room.players[p].role # "spymaster"
    /\ ~room.game.board[i].revealed

\* C14: unless phase = guess, the guesser's team is currentTurn, the
\* guesser is no spymaster and the card is unrevealed, no guessCard call
\* changes anything.
C14_GuessRejectedUnchanged ==
    \A p \in Users, i \in Cards :
        ~GuessConditions(Room(p), p, i)
        => ~ENABLED (guessCard(p, i) /\ vars' # vars)

\* A guess phase after a first guess: the revealed card, the spymaster, the
\* other team and the teamless player are rejected cases, and so is every
\* guess in the clue phase that some client still sees.
C14_Witness ==
    /\ game # NIL
    /\ game.phase = "guess"
    /\ game.winner = NULL
    /\ \E i \in Cards :
          /\ game.board[i].revealed
          /\ \E p \in Users : /\ players[p].team = game.currentTurn
                               /\ players[p].role = "operative"
                               /\ ~GuessConditions(Room(p), p, i)
    /\ \E p \in Users : players[p].team = NULL
    /\ \E p \in Stale : clientRoom[p].room.game # NIL
                         /\ clientRoom[p].room.game.phase = "clue"

\* C15: under serialized execution an accepted guess of the guessing
\* team's own colour that does not complete that team's cards takes one
\* from guessesRemaining; at 0 the turn passes, otherwise phase and
\* currentTurn stay and currentClue keeps its word and number.
C15_OwnCardDecrements ==
    [][\A p \in Users, i \in Cards :
          (/\ GuessAccepted(Room(p), p, i)
           /\ game.board[i].type = game.currentTurn
           /\ game.scores[game.currentTurn].found + 1 # game.scores[game.currentTurn].total
           /\ guessCard(p, i))
          => IF game.currentClue.guessesRemaining - 1 = 0
             THEN TurnPassed(StoredRoom)
             ELSE /\ game'.phase = "guess"
                  /\ game'.currentTurn = game.currentTurn
                  /\ game'.currentClue =
                        [word |-> game.currentClue.word,
                         number |-> game.currentClue.number,
                         guessesRemaining |-> game.currentClue.guessesRemaining - 1]]_vars

\* Player p sees a guess phase of its own team.
OnTurnInGuessPhase(room, p) ==
    /\ room.game # NIL
    /\ room.game.phase = "guess"
    /\ room.players[p] # NIL
    /\ room.players[p].team = room.game.currentTurn

\* endTurn called by p is accepted: it passes the turn and logs the pass.
CanEndTurn(p) ==
    ENABLED (endTurn(p) /\ TurnPassed(Room(p)) /\ game'.log # game.log)

\* C16 as stated: during the guess phase every player of the team on turn,
\* the spymaster included, is able to end the turn.
C16_TeamCanEndTurn ==
    \A p \in Users : OnTurnInGuessPhase(Room(p), p) => CanEndTurn(p)

\* C16 amended: every player of the team on turn whose role is not
\* spymaster is able to end the turn, at any value of guessesRemaining;
\* endTurn called by a spymaster changes nothing.
C16_OperativesCanEndTurn ==
    \A p \in Users :
        OnTurnInGuessPhase(Room(p), p)
        => IF Room(p).players[p].role # "spymaster"
           THEN CanEndTurn(p)
           ELSE ~ENABLED (endTurn(p) /\ vars' # vars)

\* The turn has been ended right after the clue, with every guess left.
C16_Witness ==
    /\ game # NIL
    /\ game.phase = "clue"
    /\ Len(game.log) >= 2
    /\ game.log[Len(game.log)].type = "pass"
    /\ game.log[Len(game.log) - 1].type = "clue"
    /\ game.log[Len(game.log) - 1].clueNumber = MaxNumber
    /\ players[game.log[Len(game.log)].playerId].role = "operative"
    /\ game.currentTurn = OtherTeam(game.log[Len(game.log)].team)

\* endTurn called by p in the clue phase, or by a player whose team is not
\* on turn, changes nothing.
EndTurnRejectedUnchanged ==
    \A p \in Users :
        (/\ Room(p).game # NIL
         /\ \/ Room(p).game.phase = "clue"
            \/ Room(p).players[p] = NIL
            \/ Room(p).players[p].team # Room(p).game.currentTurn)
        => ~ENABLED (endTurn(p) /\ vars' # vars)

\* C17: an accepted endTurn flips currentTurn, sets phase = clue and
\* currentClue = null and appends exactly one pass log entry of the team
\* that passed, whatever guessesRemaining was; endTurn in the clue phase or
\* by a player of the other team leaves the room unchanged.
C17_EndTurnPasses ==
    /\ []EndTurnRejectedUnchanged
    /\ [][\A p \in Users :
            (EndTurnAccepted(Room(p), p) /\ endTurn(p))
            => (/\ TurnPassed(Room(p))
                /\ OneEntryAppended(Room(p), "pass", Room(p).game.currentTurn))]_vars

\* The turn has been ended after a correct guess that left guesses over.
C17_Witness ==
    /\ game # NIL
    /\ game.phase = "clue"
    /\ game.currentClue = NIL
    /\ Len(game.log) >= 3
    /\ LET pass  == game.log[Len(game.log)]
           guess == game.log[Len(game.log) - 1]
       IN  /\ pass.type = "pass"
           /\ guess.type = "guess"
           /\ guess.cardType = pass.team
           /\ game.currentTurn = OtherTeam(pass.team)
           /\ game.winner = NULL

\* The cards of one colour on a board.
CardsOf(board, type) == {i \in 1..Len(board) : board[i].type = type}

\* The stored room after a round start with starting team t.
RoundInstalled(t) ==
    /\ status' = "playing"
    /\ game'.startingTeam = t
    /\ game'.currentTurn = game'.startingTeam
    /\ game'.phase = "clue"
    /\ game'.currentClue = NIL
    /\ Len(game'.board) = BoardSize
    /\ \A i \in 1..Len(game'.board) : ~game'.board[i].revealed
    /\ \A c \in Team :
          /\ game'.scores[c].found = 0
          /\ game'.scores[c].total = (IF c = t THEN StartingCards ELSE OtherCards)
          /\ game'.scores[c].total = Cardinality(CardsOf(game'.board, c))
    /\ game'.winner = NULL
    /\ game'.winReason = NULL
    /\ game'.log = <<>>

\* C18: every round start (startGame, playAgain) sets status = playing
\* and installs a game with currentTurn = startingTeam, phase = clue, no
\* clue, every card unrevealed, found = 0, the totals of the starting and
\* of the other team equal to their numbers of cards on the new board, no
\* winner, no winReason and an empty log.
C18_RoundStartInstallsGame ==
    [][\A p \in Users, t \in Team, rw \in WordDraws, rt \in TypeDraws :
          (/\ StartShown(Room(p), p) \/ GameOverShown(Room(p))
           /\ startGame(p, t, rw, rt) \/ playAgain(p, t, rw, rt))
          => RoundInstalled(t)]_vars

\* A round restarted by playAgain with blue as starting team: a client
\* still holds the decided round while the store holds the new one.
C18_Witness ==
    /\ status = "playing"
    /\ game # NIL
    /\ game.log = <<>>
    /\ game.startingTeam = "blue"
    /\ game.scores.blue.total = StartingCards
    /\ \E p \in Stale : /\ clientRoom[p].room.game # NIL
                         /\ clientRoom[p].room.game.winner # NULL

\* While A holds the spymaster slot of team t, selectRole('spymaster') by
\* another player B of t changes nothing.
SecondClaimRejected ==
    \A t \in Team, A \in Users, B \in Users :
        (/\ A # B
         /\ teams[t].spymaster = A
         /\ myTeam(StoredRoom, B) = t)
        => ~ENABLED (selectRole(B, "spymaster") /\ vars' # vars)

\* selectRole('spymaster') by a player A of team t whose slot is empty
\* puts A into the slot.
FirstClaimTakesSlot ==
    \A t \in Team, A \in Users :
        (/\ myTeam(StoredRoom, A) = t
         /\ teams[t].spymaster = NULL
         /\ InLobby(StoredRoom)
         /\ selectRole(A, "spymaster"))
        => teams'[t].spymaster = A

\* C19: under serialized execution, after A has taken the empty spymaster
\* slot of team T, selectRole('spymaster') by B of the same team is a
\* no-op: the slot is still A's, B's role and B's place among the
\* operatives are unchanged.
C19_SecondSpymasterRejected ==
    /\ []SecondClaimRejected
    /\ [][FirstClaimTakesSlot]_vars

\* A holds the slot of a team on which B is an operative.
C19_Witness ==
    \E t \in Team, A \in Users, B \in Users :
        /\ A # B
        /\ teams[t].spymaster = A
        /\ players[A] # NIL
        /\ players[A].role = "spymaster"
        /\ players[B] # NIL
        /\ players[B].team = t
        /\ players[B].role = "operative"
        /\ Includes(teams[t].operatives, B)
        /\ InLobby(StoredRoom)

\* The places a player id occupies in the team lists.
Occurrences(s, x) == Cardinality({i \in 1..Len(s) : s[i] = x})

Places(ts, x) ==
    (IF ts.red.spymaster = x THEN 1 ELSE 0) + Occurrences(ts.red.operatives, x)
    + (IF ts.blue.spymaster = x THEN 1 ELSE 0) + Occurrences(ts.blue.operatives, x)

\* C20: under serialized joinTeam, selectRole and kickPlayer every player
\* id occurs in at most one of red.spymaster, red.operatives,
\* blue.spymaster, blue.operatives, and at most once in an operatives list.
C20_OnePlacePerPlayer == \A x \in Users : Places(teams, x) <= 1

\* One player has been kicked, one has come back to a team after being
\* kicked (its record has no id) and one has become a spymaster.
C20_Witness ==
    /\ \E x \in Users : players[x] = NIL /\ Places(teams, x) = 0
    /\ \E x \in Users : /\ players[x] # NIL
                         /\ players[x].id = NULL
                         /\ players[x].team # NULL
                         /\ Includes(teams[players[x].team].operatives, x)
    /\ \E x \in Users : \E t \in Team : teams[t].spymaster = x

\* C21: joinTeam(p, T) computed from the current state takes p out of the
\* spymaster slot or operatives list it was in (the slot of T included),
\* puts p into teams[T].operatives and sets players[p].team = T and
\* players[p].role = operative; the places and records of the other players
\* are unchanged.
C21_JoinTeamMoves ==
    [][\A p \in Users, T \in Team :
          (InLobby(StoredRoom) /\ joinTeam(p, T))
          => (/\ Includes(teams'[T].operatives, p)
              /\ Places(teams', p) = 1
              /\ players'[p] # NIL
              /\ players'[p].team = T
              /\ players'[p].role = "operative"
              /\ \A q \in Users \ {p} : players'[q] = players[q]
              /\ \A t \in Team :
                    /\ teams'[t].spymaster =
                          (IF teams[t].spymaster = p THEN NULL ELSE teams[t].spymaster)
                    /\ FilterOut(teams'[t].operatives, p)
                          = FilterOut(teams[t].operatives, p))]_vars

\* Two players have joined blue one after the other while red keeps a
\* spymaster and no operative: the second one came from another place.
C21_Witness ==
    /\ InLobby(StoredRoom)
    /\ Len(teams.blue.operatives) = 2
    /\ teams.blue.spymaster = NULL
    /\ teams.red.spymaster # NULL
    /\ teams.red.operatives = <<>>
    /\ \A x \in Range(teams.blue.operatives) :
          players[x].team = "blue" /\ players[x].role = "operative"

\* C22: joinTeam(p, T) by a player who is already an operative in
\* teams[T].operatives leaves the whole room as it is, the order of the
\* list included, and calling joinTeam(p, T) twice gives the room that one
\* call gives.
C22_JoinTeamIdempotent ==
    \A p \in Users, T \in Team :
        InLobby(StoredRoom) =>
            /\ Includes(teams[T].operatives, p)
                   => ~ENABLED (joinTeam(p, T) /\ vars' # vars)
            /\ LET once == ApplyUpdates(StoredRoom, JoinUpdates(StoredRoom, p, T))
               IN  ApplyUpdates(once, JoinUpdates(once, p, T)) = once

\* An operative stands in a list before another one: a second joinTeam to
\* the same team would move it to the end if it were pushed again.
C22_Witness ==
    /\ InLobby(StoredRoom)
    /\ \E T \in Team :
          /\ Len(teams[T].operatives) = 2
          /\ LET p == teams[T].operatives[1]
             IN  /\ players[p] = Member(p, T, "operative")
                 /\ ENABLED joinTeam(p, T)

\* C23: selectRole(p, operative) by a player whose team is T sets
\* teams[T].spymaster to null when p held it and leaves it alone otherwise,
\* and p ends in teams[T].operatives exactly once with role operative;
\* selectRole by a player who has no team changes nothing.
C23_SelectOperative ==
    /\ [](\A p \in Users, r \in {"spymaster", "operative"} :
            (InLobby(Room(p)) /\ (players[p] = NIL \/ players[p].team = NULL))
            => ~ENABLED (selectRole(p, r) /\ vars' # vars))
    /\ [][\A p \in Users, T \in Team :
            (/\ InLobby(Room(p))
             /\ players[p] # NIL
             /\ players[p].team = T
             /\ selectRole(p, "operative"))
            => (/\ teams'[T].spymaster =
                      (IF teams[T].spymaster = p THEN NULL ELSE teams[T].spymaster)
                /\ Occurrences(teams'[T].operatives, p) = 1
                /\ players'[p].role = "operative"
                /\ players'[p].team = T)]_vars

\* A client that missed one write still shows p as the spymaster of T, and
\* the stored room has the slot of T empty and p among its operatives.
C23_Witness ==
    \E q \in Stale, p \in Users, T \in Team :
        /\ clientRoom[q].missed = 1
        /\ clientRoom[q].room.teams[T].spymaster = p
        /\ clientRoom[q].room.players[p].role = "spymaster"
        /\ teams[T].spymaster = NULL
        /\ Occurrences(teams[T].operatives, p) = 1
        /\ players[p] = Member(p, T, "operative")

\* The stored room after selectRole(p, role) computed from the copy snap.
RoleResult(room, snap, p, role) ==
    IF SelectRoleAccepted(snap, p, role)
    THEN ApplyUpdates(room, RoleUpdates(snap, p, role))
    ELSE room

JoinResult(room, snap, p, team) == ApplyUpdates(room, JoinUpdates(snap, p, team))

StoredRoomNext == [status |-> status', teams |-> teams', players |-> players', game |-> game']

\* A and B are on different teams in the snapshot B holds; A's selectRole,
\* computed from that snapshot, is stored, and B now calls selectRole from
\* the snapshot.
RoleRace(A, ra, B, rb) ==
    /\ clientRoom[B] # LIVE
    /\ A # B
    /\ InLobby(clientRoom[B].room)
    /\ myTeam(clientRoom[B].room, A) \in Team
    /\ myTeam(clientRoom[B].room, B) \in Team
    /\ myTeam(clientRoom[B].room, A) # myTeam(clientRoom[B].room, B)
    /\ StoredRoom = RoleResult(clientRoom[B].room, clientRoom[B].room, A, ra)
    /\ selectRole(B, rb)

\* A and B have no team in the snapshot B holds; A's joinTeam(ta), computed
\* from that snapshot, is stored, and B now calls joinTeam(tb), tb # ta.
JoinRace(A, ta, B, tb) ==
    /\ clientRoom[B] # LIVE
    /\ A # B
    /\ ta # tb
    /\ InLobby(clientRoom[B].room)
    /\ myTeam(clientRoom[B].room, A) = NULL
    /\ myTeam(clientRoom[B].room, B) = NULL
    /\ StoredRoom = JoinResult(clientRoom[B].room, clientRoom[B].room, A, ta)
    /\ joinTeam(B, tb)

\* C24: when two players on different teams each call selectRole from the
\* same snapshot, or two teamless players call joinTeam for different teams
\* from the same snapshot, the stored room after both writes is the same
\* for both write orders and is the room the two calls give when each is
\* computed from the latest room: neither change is lost.
C24_DisjointRaceBenign ==
    [][\A B \in Stale : \A A \in Users :
          LET snap == clientRoom[B].room
          IN  /\ \A ra \in {"spymaster", "operative"}, rb \in {"spymaster", "operative"} :
                    RoleRace(A, ra, B, rb)
                    => (/\ StoredRoomNext
                             = RoleResult(RoleResult(snap, snap, B, rb), snap, A, ra)
                        /\ StoredRoomNext
                             = RoleResult(StoredRoom, StoredRoom, B, rb)
                        /\ StoredRoomNext
                             = LET first == RoleResult(snap, snap, B, rb)
                               IN  RoleResult(first, first, A, ra))
              /\ \A ta \in Team, tb \in Team :
                    JoinRace(A, ta, B, tb)
                    => (/\ StoredRoomNext
                             = JoinResult(JoinResult(snap, snap, B, tb), snap, A, ta)
                        /\ StoredRoomNext
                             = JoinResult(StoredRoom, StoredRoom, B, tb)
                        /\ StoredRoomNext
                             = LET first == JoinResult(snap, snap, B, tb)
                               IN  JoinResult(first, first, A, ta))]_vars

\* Midway through such a race: the store holds A's claim of its team's
\* spymaster slot, and B, on the other team, is about to claim its own from
\* a snapshot that shows neither.
C24_Witness ==
    \E B \in Stale, A \in Users :
        /\ clientRoom[B].missed = 1
        /\ clientRoom[B].room.teams.red.spymaster = NULL
        /\ clientRoom[B].room.teams.blue.spymaster = NULL
        /\ players[A].team \in Team
        /\ teams[players[A].team].spymaster = A
        /\ ENABLED (RoleRace(A, "spymaster", B, "spymaster") /\ vars' # vars)

\* C25: under serialized execution, within a round, a card's revealed flag
\* changes only from false to true, its id, word and type never change, and
\* its revealedBy changes only in the step that reveals it, to the id of
\* the player whose guess reveals it.
C25_CardsMonotone ==
    [][(game # NIL /\ (GiveClue \/ Guess \/ Pass))
       => (/\ game' # NIL
           /\ Len(game'.board) = Len(game.board)
           /\ \A c \in 1..Len(game.board) :
                 LET old == game.board[c]
                     new == game'.board[c]
                 IN  /\ new.id = old.id
                     /\ new.word = old.word
                     /\ new.type = old.type
                     /\ old.revealed => new.revealed
                     /\ (new.revealedBy # old.revealedBy \/ new.revealed # old.revealed)
                           => (/\ ~old.revealed
                               /\ new.revealed
                               /\ old.revealedBy = NULL
                               /\ \E p \in Users :
                                     guessCard(p, c) /\ new.revealedBy = p))]_vars

\* Two cards have been revealed by two different players and a later step
\* was no guess: each card still names the player who revealed it.
C25_Witness ==
    /\ game # NIL
    /\ \E c, d \in Cards :
          /\ game.board[c].revealed
          /\ game.board[d].revealed
          /\ game.board[c].revealedBy \in Users
          /\ game.board[d].revealedBy \in Users
          /\ game.board[c].revealedBy # game.board[d].revealedBy
    /\ game.log[Len(game.log)].type # "guess"

\* The calls C26 counts as rejected, by the conditions C13, C14 and C17 name,
\* leave the log as it is.
RejectedAppendNothing ==
    /\ \A p \in Users, w \in ClueInputs, n \in 0..MaxNumber :
          ~ClueConditions(StoredRoom, p, w, n)
          => ~ENABLED (submitClue(p, w, n) /\ game' # game)
    /\ \A p \in Users, i \in Cards :
          ~GuessConditions(StoredRoom, p, i)
          => ~ENABLED (guessCard(p, i) /\ game' # game)
    /\ \A p \in Users :
          ~(OnTurnInGuessPhase(StoredRoom, p) /\ players[p].role # "spymaster")
          => ~ENABLED (endTurn(p) /\ game' # game)

\* C26: under serialized execution, within a round, the log only grows at
\* its end: every accepted submitClue, guessCard and endTurn appends exactly
\* one entry, of type clue, guess and pass respectively (a guess is logged
\* on every path, the assassin and the winning guess included), the earlier
\* entries stay as they are, and a rejected call appends nothing.
C26_LogAppendOnly ==
    /\ []RejectedAppendNothing
    /\ [][(game # NIL /\ (GiveClue \/ Guess \/ Pass))
           => (/\ game' # NIL
               /\ Len(game'.log) = Len(game.log) + 1
               /\ SubSeq(game'.log, 1, Len(game.log)) = game.log
               /\ \A p \in Users, w \in ClueInputs, n \in 0..MaxNumber :
                     (SubmitClueAccepted(StoredRoom, p, w, n) /\ submitClue(p, w, n))
                     => OneEntryAppended(StoredRoom, "clue", game.currentTurn)
               /\ \A p \in Users, i \in Cards :
                     (GuessAccepted(StoredRoom, p, i) /\ guessCard(p, i))
                     => OneEntryAppended(StoredRoom, "guess", game.currentTurn)
               /\ \A p \in Users :
                     (EndTurnAccepted(StoredRoom, p) /\ endTurn(p))
                     => OneEntryAppended(StoredRoom, "pass", game.currentTurn))]_vars

\* The round has ended on the assassin, and the last log entry is that
\* guess, after a clue and an earlier guess.
C26_Witness ==
    /\ game # NIL
    /\ game.winner # NULL
    /\ game.winReason = "assassin"
    /\ Len(game.log) >= 3
    /\ game.log[1].type = "clue"
    /\ game.log[Len(game.log) - 1].type = "guess"
    /\ game.log[Len(game.log)].type = "guess"
    /\ game.log[Len(game.log)].cardType = "assassin"

\* C27: in every reachable state with currentClue non-null,
\* 1 <= currentClue.number <= 9 (so guessesRemaining never exceeds 10).
C27_ClueNumberInRange ==
    (game # NIL /\ game.currentClue # NIL)
    => (/\ 1 <= game.currentClue.number
        /\ game.currentClue.number <= MaxClueNumber
        /\ game.currentClue.guessesRemaining <= MaxClueNumber + 1)

\* The number of cards of one type on a board.
TypeCount(board, type) == Cardinality({i \in 1..Len(board) : board[i].type = type})

\* C28: for either starting team and every outcome of the shuffles,
\* generateBoard returns exactly BoardSize cards (25 in the code) with ids
\* 0..BoardSize-1 in order, all unrevealed with revealedBy = null, whose
\* types are StartingCards (9) of the starting team's colour, OtherCards (8)
\* of the other colour, NeutralCards (7) neutral and one assassin, and whose
\* words are pairwise distinct, the vocabulary holding at least that many
\* distinct words.
C28_BoardWellFormed ==
    game # NIL =>
        LET board == game.board
            start == game.startingTeam
        IN  /\ Len(board) = BoardSize
            /\ \A i \in 1..Len(board) :
                  /\ board[i].id = i - 1
                  /\ board[i].revealed = FALSE
                  /\ board[i].revealedBy = NULL
            /\ TypeCount(board, start) = StartingCards
            /\ TypeCount(board, OtherTeam(start)) = OtherCards
            /\ TypeCount(board, "neutral") = NeutralCards
            /\ TypeCount(board, "assassin") = 1
            /\ \A i, j \in 1..Len(board) : i # j => board[i].word # board[j].word
            /\ \A i \in 1..Len(board) : board[i].word \in Range(WORD_LIST)

\* A board dealt for blue whose first card is the assassin and carries the
\* last word of the vocabulary, and whose last card is red.
C28_Witness ==
    /\ game # NIL
    /\ game.startingTeam = "blue"
    /\ game.board[1].type = "assassin"
    /\ game.board[1].word = WORD_LIST[Len(WORD_LIST)]
    /\ game.board[BoardSize].type = "red"
    /\ game.board[BoardSize].word = WORD_LIST[1]

\* C29: when the write issued by createRoom, joinRoom or startGame fails,
\* the stored room is unchanged and the caller is left with none of
\* isCreating, isJoining, isStarting set, so that the same action is enabled
\* again.
C29_FailedWriteRetryable ==
    [][\A p \in Users :
          (\/ createRoom(p, "setFails")
           \/ \E c \in JoinInputs : Trim(c) # <<>> /\ joinRoom(p, c, "setFails")
           \/ startGameFails(p))
          => (/\ UNCHANGED store
              /\ ~ui'[p].isCreating
              /\ ~ui'[p].isJoining
              /\ ~ui'[p].isStarting)]_vars

\* The code a typed joinCode stands for.
TypedCode(c) == ToUpperCase(Trim(c))

\* C30: joinRoom with a code that has no room, or with the code of a room
\* whose status is finished, shows an error and writes nothing; for an
\* existing room that is not finished it writes the caller's record, with
\* team = null and role = null, only when no record of the caller is
\* stored, and it never changes a stored record.  (It does write that
\* record when the store answers, some player record is stored and the
\* caller's is not.)
C30_JoinRoomContract ==
    [][\A p \in Users, c \in JoinInputs, o \in JoinOutcomes :
          (Trim(c) # <<>> /\ joinRoom(p, c, o))
          => (/\ (TypedCode(c) # RoomCode \/ status = "finished")
                    => (UNCHANGED store /\ ui'[p].error # "")
              /\ UNCHANGED <<status, teams, game>>
              /\ \A q \in Users :
                    players'[q] # players[q]
                    => (/\ q = p
                        /\ players[p] = NIL
                        /\ players'[p] = [id |-> p, team |-> NULL, role |-> NULL]
                        /\ TypedCode(c) = RoomCode
                        /\ status # "finished")
              /\ (/\ TypedCode(c) = RoomCode
                  /\ status # "finished"
                  /\ o = "ok"
                  /\ players[p] = NIL
                  /\ \E q \in Users : players[q] # NIL)
                    => players'[p] = [id |-> p, team |-> NULL, role |-> NULL])]_vars

\* b1, who was a blue operative, has been kicked and has joined the room
\* again: its record is a fresh one and the blue list no longer names it.
C30_Witness ==
    /\ players["b1"] = [id |-> "b1", team |-> NULL, role |-> NULL]
    /\ ~Includes(teams.blue.operatives, "b1")
    /\ ui["b1"].error = ""
    /\ status # "finished"

\* The scores of a round red started, with red's found at n and blue's at 0.
RedLeads(g, n) ==
    g.scores = [red  |-> [found |-> n, total |-> StartingCards25],
                blue |-> [found |-> 0, total |-> OtherCards25]]

\* A fresh round started by red.
FreshRedRound ==
    /\ status = "playing"
    /\ game # NIL
    /\ game.startingTeam = "red"
    /\ game.currentTurn = "red"
    /\ game.phase = "clue"
    /\ game.currentClue = NIL
    /\ game.log = <<>>
    /\ game.winner = NULL
    /\ RedLeads(game, 0)

\* The round after the red spymaster's clue with number 2.
AfterClueOfTwo ==
    /\ game # NIL
    /\ Len(game.log) = 1
    /\ game.log[1].type = "clue"
    /\ game.currentTurn = "red"
    /\ game.phase = "guess"
    /\ game.currentClue # NIL
    /\ game.currentClue.number = 2
    /\ game.currentClue.guessesRemaining = 3
    /\ game.winner = NULL
    /\ RedLeads(game, 0)

\* The round after a red operative's guess of a red card that followed.
AfterRedCard(p) ==
    /\ game # NIL
    /\ Len(game.log) = 2
    /\ game.log[2].type = "guess"
    /\ game.log[2].playerId = p
    /\ game.log[2].cardType = "red"
    /\ game.currentTurn = "red"
    /\ game.phase = "guess"
    /\ game.currentClue # NIL
    /\ game.currentClue.number = 2
    /\ game.currentClue.guessesRemaining = 2
    /\ game.winner = NULL
    /\ RedLeads(game, 1)

\* C31: from a fresh round with startingTeam = red (red 0/9, blue 0/8) the
\* red spymaster's clue with number 2 gives guessesRemaining = 3; a red
\* operative's guess of a red card then gives red found = 1 of 9 with the
\* phase still guess and guessesRemaining = 2; that operative's next guess
\* of a blue card gives currentTurn = blue, phase = clue and currentClue =
\* null with red's score still 1 of 9.
C31_EndToEndTrace ==
    [][/\ \A p \in Users, w \in ClueInputs :
            (FreshRedRound /\ SubmitClueAccepted(StoredRoom, p, w, 2)
                /\ submitClue(p, w, 2))
            => AfterClueOfTwo'
       /\ \A p \in Users, i \in TraceCards :
            (/\ AfterClueOfTwo
             /\ game.board[i].type = "red"
             /\ GuessAccepted(StoredRoom, p, i)
             /\ guessCard(p, i))
            => AfterRedCard(p)'
       /\ \A p \in Users, i \in TraceCards :
            (/\ AfterRedCard(p)
             /\ game.board[i].type = "blue"
             /\ GuessAccepted(StoredRoom, p, i)
             /\ guessCard(p, i))
            => (/\ game'.currentTurn = "blue"
                /\ game'.phase = "clue"
                /\ game'.currentClue = NIL
                /\ game'.scores.red = [found |-> 1, total |-> StartingCards25]
                /\ game'.scores.blue = [found |-> 1, total |-> OtherCards25]
                /\ game'.winner = NULL
                /\ status' = "playing")]_vars

\* The end of the trace: a clue of 2, a red card and a blue card guessed by
\* the same red operative, and the turn with blue.
C31_Witness ==
    /\ game # NIL
    /\ game.startingTeam = "red"
    /\ Len(game.log) = 3
    /\ game.log[1].type = "clue"
    /\ game.log[1].clueNumber = 2
    /\ game.log[2].type = "guess" /\ game.log[2].cardType = "red"
    /\ game.log[3].type = "guess" /\ game.log[3].cardType = "blue"
    /\ game.log[2].playerId = game.log[3].playerId
    /\ players[game.log[3].playerId] = Member(game.log[3].playerId, "red", "operative")
    /\ game.currentTurn = "blue"
    /\ game.phase = "clue"
    /\ game.currentClue = NIL
    /\ game.scores.red = [found |-> 1, total |-> StartingCards25]

\* Some player has an accepted game action: a call of submitClue, guessCard
\* or endTurn that changes the room.
SomeGameAction ==
    \/ \E p \in Users, w \in ClueInputs, n \in 1..MaxNumber :
          ENABLED (submitClue(p, w, n) /\ vars' # vars)
    \/ \E p \in Users, i \in Cards : ENABLED (guessCard(p, i) /\ vars' # vars)
    \/ \E p \in Users : ENABLED (endTurn(p) /\ vars' # vars)

\* C32: in every state of a round started with canStart true and reached
\* under serialized execution, without administrator actions or team
\* changes, in which status = playing and winner = null, at least one
\* player has an accepted game action.
C32_RoundNeverStuck ==
    (status = "playing" /\ game # NIL /\ game.winner = NULL) => SomeGameAction

\* C33: in every reachable state, those produced by clients writing from
\* stale snapshots included, winReason = all_found implies that every card
\* of the winner's colour on the stored board is revealed.
C33_AllFoundAllRevealed ==
    (game # NIL /\ game.winReason = "all_found")
    => \A i \in 1..Len(game.board) :
          game.board[i].type = game.winner => game.board[i].revealed

\* C34: whenever a round is in progress (status = playing and winner =
\* null) both teams have a non-null spymaster who is a player of that team
\* with role spymaster, for every serialized sequence of player actions in
\* which joinTeam and selectRole stay available while status is finished
\* and playAgain starts the next round.
C34_SpymastersDuringRound ==
    (status = "playing" /\ game # NIL /\ game.winner = NULL)
    => \A t \in Team :
          /\ teams[t].spymaster # NULL
          /\ players[teams[t].spymaster] # NIL
          /\ players[teams[t].spymaster].team = t
          /\ players[teams[t].spymaster].role = "spymaster"

\* C35: in every reachable state, also after joinTeam / selectRole writes
\* computed from the same stale snapshot, player records and team lists
\* agree: (players[p].team = T and players[p].role = operative) iff p is in
\* teams[T].operatives, and (players[p].team = T and players[p].role =
\* spymaster) iff teams[T].spymaster = p.
C35_RecordsAgreeWithTeams ==
    \A p \in Users, T \in Team :
        /\ (players[p] # NIL /\ players[p].team = T /\ players[p].role = "operative")
              <=> Includes(teams[T].operatives, p)
        /\ (players[p] # NIL /\ players[p].team = T /\ players[p].role = "spymaster")
              <=> (teams[T].spymaster = p)

\* C36: in every reachable state, under any interleaving of the players'
\* actions (guesses written from a copy older than a restart included) and
\* the administrator's reset and end, a non-null game.winner comes with
\* status = finished and a non-null winReason.
C36_WinnerOnlyWhenFinished ==
    (game # NIL /\ game.winner # NULL) =>
        (status = "finished" /\ game.winReason # NULL)

\* A guess written from a copy older than the administrator's reset has
\* ended the round: the stored game has a winner and no startingTeam.
C36_Witness ==
    /\ game # NIL
    /\ game.winner # NULL
    /\ game.startingTeam = NULL
    /\ status = "finished"

\* C37: under serialized execution, in every state of a round each team's
\* found is the number of revealed cards of its colour; a guess that reveals
\* the other team's card adds exactly 1 to the other team's found and leaves
\* the guessing team's found as it is, and a neutral or assassin reveal
\* changes neither score.
FoundIsRevealed ==
    game # NIL => \A t \in Team : game.scores[t].found = Cardinality(RevealedOf(game, t))

\* The step reveals card i of the stored board.
Reveals(i) ==
    /\ game # NIL /\ game' # NIL
    /\ i \in 1..Len(game.board) /\ Len(game'.board) = Len(game.board)
    /\ ~game.board[i].revealed /\ game'.board[i].revealed

RevealScores ==
    \A i \in Cards :
        Reveals(i) =>
            LET type == game.board[i].type
                turn == game.currentTurn
            IN  /\ type = OtherTeam(turn) =>
                      /\ game'.scores[type].found = game.scores[type].found + 1
                      /\ game'.scores[turn].found = game.scores[turn].found
                /\ type \in {"neutral", "assassin"} => game'.scores = game.scores

C37_FoundCountsRevealed == []FoundIsRevealed /\ [][RevealScores]_vars

\* An operative has revealed a card of the other team's colour, a neutral
\* card is revealed too, and the scores count them.
C37_Witness ==
    /\ game # NIL
    /\ \E i \in Cards :
           /\ game.board[i].revealed /\ Typed(game.board[i])
           /\ players[game.board[i].revealedBy].team = OtherTeam(game.board[i].type)
           /\ game.scores[game.board[i].type].found >= 1
    /\ \E j \in Cards : game.board[j].revealed /\ game.board[j].type = "neutral"

\* The guesses logged since the last clue, and that clue's number.
RECURSIVE GuessesSinceClue(_)
GuessesSinceClue(log) ==
    IF log = <<>> \/ log[Len(log)].type = "clue" THEN 0
    ELSE (IF log[Len(log)].type = "guess" THEN 1 ELSE 0)
         + GuessesSinceClue(SubSeq(log, 1, Len(log) - 1))

RECURSIVE LastClue(_)
LastClue(log) ==
    IF log = <<>> THEN NIL
    ELSE IF log[Len(log)].type = "clue" THEN log[Len(log)]
    ELSE LastClue(SubSeq(log, 1, Len(log) - 1))

WithinBonus(g) ==
    LastClue(g.log) # NIL => GuessesSinceClue(g.log) <= LastClue(g.log).clueNumber + 1

\* C38: under serialized execution, between an accepted clue with number n
\* and the next change of currentTurn (or the end of the round) the team
\* that gave the clue has at most n + 1 accepted guesses, and in every
\* guess-phase state 1 <= guessesRemaining <= number + 1.
GuessesRemainingInRange ==
    (game # NIL /\ game.phase = "guess") =>
        /\ game.currentClue # NIL
        /\ 1 <= game.currentClue.guessesRemaining
        /\ game.currentClue.guessesRemaining <= game.currentClue.number + 1

GuessesWithinBonus == (game # NIL /\ game.winner = NULL) => WithinBonus(game)

\* The guess that ends the round is within the bound as well.
LastGuessWithinBonus ==
    (game # NIL /\ game' # NIL /\ game.winner = NULL /\ game'.winner # NULL)
        => WithinBonus(game')

C38_BonusGuessBound ==
    /\ []GuessesRemainingInRange
    /\ []GuessesWithinBonus
    /\ [][LastGuessWithinBonus]_vars

\* A team has used the n + 1 guesses of its clue and the turn has passed.
C38_Witness ==
    /\ game # NIL /\ game.winner = NULL /\ game.phase = "clue"
    /\ LastClue(game.log) # NIL
    /\ GuessesSinceClue(game.log) = LastClue(game.log).clueNumber + 1
    /\ game.currentTurn = OtherTeam(LastClue(game.log).team)

\* The guess of card i computed from the document `room` ends the round.
GuessEnds(room, i) == room.game.board[i].type = "assassin" \/ Complete(room.game, i)

SubmitClueFrame ==
    \A p \in Users, w \in ClueInputs, n \in 0..MaxNumber :
        (SubmitClueAccepted(Room(p), p, w, n) /\ submitClue(p, w, n)) =>
            /\ UNCHANGED <<teams, players, status>>
            /\ game # NIL /\ game' # NIL
            /\ game'.board = game.board /\ game'.scores = game.scores
            /\ game'.currentTurn = game.currentTurn
            /\ game'.winner = game.winner /\ game'.winReason = game.winReason

EndTurnFrame ==
    \A p \in Users :
        (EndTurnAccepted(Room(p), p) /\ endTurn(p)) =>
            /\ UNCHANGED <<teams, players, status>>
            /\ game # NIL /\ game' # NIL
            /\ game'.board = game.board /\ game'.scores = game.scores
            /\ game'.winner = game.winner /\ game'.winReason = game.winReason

GuessCardFrame ==
    \A p \in Users, i \in Cards :
        (GuessAccepted(Room(p), p, i) /\ guessCard(p, i)) =>
            /\ UNCHANGED <<teams, players>>
            /\ ~GuessEnds(Room(p), i) =>
                  /\ status' = status
                  /\ game # NIL /\ game' # NIL
                  /\ game'.winner = game.winner /\ game'.winReason = game.winReason

LobbyFrame ==
    /\ \A p \in LobbyMovers, t \in Team :
           (InLobby(Room(p)) /\ joinTeam(p, t)) => UNCHANGED <<status, game>>
    /\ \A p \in LobbyMovers, r \in {"spymaster", "operative"} :
           (InLobby(Room(p)) /\ selectRole(p, r)) => UNCHANGED <<status, game>>

\* C39: submitClue, guessCard and endTurn never modify teams or players;
\* submitClue also leaves board, scores, currentTurn, winner, winReason and
\* status as they are, endTurn leaves board, scores, winner, winReason and
\* status, a guessCard that does not end the round leaves winner, winReason
\* and status; joinTeam and selectRole never modify status or game.
C39_PartialWriteFrame ==
    [][SubmitClueFrame /\ EndTurnFrame /\ GuessCardFrame /\ LobbyFrame]_vars

\* A pass written from a copy that is behind the store: the stored log
\* is the clue and the pass, the pass having replaced the entry of a guess
\* whose card the stored board still shows revealed.
C39_Witness ==
    /\ game # NIL /\ game.phase = "clue" /\ game.winner = NULL
    /\ Len(game.log) = 2 /\ game.log[1].type = "clue" /\ game.log[2].type = "pass"
    /\ \E i \in Cards : game.board[i].revealed

\* C40: createRoom never replaces an existing room: when the code that
\* generateRoomCode returns is the code of a stored room, createRoom leaves
\* that room's status, teams, players and game as they are.
C40_CreateRoomKeepsExisting ==
    [][\A p \in Users : createRoom(p, "sameCode") => UNCHANGED <<status, teams, players, game>>]_vars

====
